---------------------------- MODULE Spec2Model ----------------------------
(***************************************************************************)
(* The terminal text-input buffer of src-ts/hooks/useTextBuffer.ts: the    *)
(* pure reducer over BufferState (lines, cursor, collapsed-block registry, *)
(* id counter) and the paste-coalescing controller of handleKey (paste     *)
(* buffer, anchor cursor, debounce timer).                                 *)
(*                                                                         *)
(* A JavaScript string is modelled as the sequence of its codepoints; a    *)
(* codepoint is a one-token TLA+ string.  "EMOJI" stands for an astral     *)
(* codepoint (U+1F600): one codepoint, two UTF-16 code units.  "LF", "CR", *)
(* "TAB" and "BEL" stand for U+000A, U+000D, U+0009 and U+0007.            *)
(***************************************************************************)
EXTENDS Integers, Sequences, FiniteSets, TLC

VARIABLES
    state,            \* BufferState held by useState (lines, cursor, blocks, id counter)
    pasteBufferRef,   \* pasteBufferRef.current: the accumulated paste lines
    pasteCursorRef,   \* pasteCursorRef.current: the anchor cursor, or Null
    pasteTimeoutRef,  \* pasteTimeoutRef.current: the last timeout handle, or Null
    timers,           \* the pending timeouts of the event loop
    pasteFragments,   \* history: the key sequences of the fragments accumulated in pasteBufferRef
    nEdits,           \* number of typed inserts and deletions so far (bounded by MaxEdits)
    nFragments,       \* number of multi-line fragments received so far (bounded by MaxFragments)
    nSetText,         \* number of setText calls so far (bounded by MaxSetText)
    nMoves,           \* number of cursor keys so far (bounded by MaxMoves)
    mounted,          \* the hook is mounted (the input surface exists)
    crashed,          \* a render or an event handler threw: the program is gone
    scrollRow,        \* scrollRow held by useState: the first visual row of the viewport
    viewportWidth,    \* prop viewportWidth of the hook
    viewportHeight,   \* prop viewportHeight of the hook
    effectPending,    \* the scroll effect is due: a dependency changed in the last render
    call,             \* the application of a pure function: its arguments and its result
    codePointsCache,  \* textUtils: Map from a string to the array of its codepoints
    stringWidthCache  \* textUtils: Map from a string to its display width

vars == <<state, pasteBufferRef, pasteCursorRef, pasteTimeoutRef, timers, pasteFragments,
          nEdits, nFragments, nSetText, nMoves, mounted, crashed,
          scrollRow, viewportWidth, viewportHeight, effectPending, call,
          codePointsCache, stringWidthCache>>

-----------------------------------------------------------------------------
(* Bounds of the model *)

MaxEdits == 1
MaxFragments == 2
MaxSetText == 1
MaxMoves == 2
MaxViewEdits == 2
MaxViewMoves == 2
MaxViewPastes == 1

(* Program constants *)

COLLAPSE_THRESHOLD == 5
DEBOUNCE_MS == 150
MAX_STRING_LENGTH_TO_CACHE == 1000
\* the granularity of time: a pending timeout is seen half way and when due
TickMs == DEBOUNCE_MS \div 2

\* null, for pasteCursorRef.current and pasteTimeoutRef.current
Null == [row |-> -1, col |-> -1]
NoTimer == 0

-----------------------------------------------------------------------------
(* JavaScript string and array primitives on codepoint sequences *)

Min(a, b) == IF a < b THEN a ELSE b
Max(a, b) == IF a > b THEN a ELSE b

\* UTF-16 code units of one codepoint
U16(cp) == IF cp = "EMOJI" THEN 2 ELSE 1

RECURSIVE U16Len(_)
\* String.prototype.length: the number of UTF-16 code units
U16Len(s) == IF s = <<>> THEN 0 ELSE U16(Head(s)) + U16Len(Tail(s))

\* Array.prototype.slice(start, end) on a sequence (0-based, end exclusive, clamped)
ArraySlice(s, start, end) ==
    LET n == Len(s)
        a == IF start < 0 THEN Max(n + start, 0) ELSE Min(start, n)
        b == IF end < 0 THEN Max(n + end, 0) ELSE Min(end, n)
    IN  SubSeq(s, a + 1, b)

ArraySliceFrom(s, start) == ArraySlice(s, start, Len(s))

\* the codepoint index that a UTF-16 index k of s falls on (k on a codepoint boundary)
RECURSIVE CpIndexOf16(_, _)
CpIndexOf16(s, k) ==
    IF k <= 0 \/ s = <<>> THEN 0 ELSE 1 + CpIndexOf16(Tail(s), k - U16(Head(s)))

\* String.prototype.slice(start, end) with UTF-16 indices
StrSlice(s, start, end) == ArraySlice(s, CpIndexOf16(s, start), CpIndexOf16(s, end))
StrSliceFrom(s, start) == ArraySliceFrom(s, CpIndexOf16(s, start))

\* the codepoint positions (0-based) at which pat occurs in s
Occurrences(s, pat) ==
    {i \in 0..(Len(s) - Len(pat)) : SubSeq(s, i + 1, i + Len(pat)) = pat}

Includes(s, pat) == Occurrences(s, pat) # {}

\* String.prototype.indexOf: the UTF-16 index of the first occurrence, or -1
IndexOf(s, pat) ==
    IF Occurrences(s, pat) = {} THEN -1
    ELSE LET i == CHOOSE j \in Occurrences(s, pat) :
                     \A k \in Occurrences(s, pat) : j <= k
         IN  U16Len(SubSeq(s, 1, i))

-----------------------------------------------------------------------------
(* src-ts/utils/textUtils.ts *)

\* codepoints removed by stripUnsafeCharacters: C0/C1 controls and DEL,
\* except tab, line feed and carriage return
IsUnsafe(cp) == cp = "BEL"

\* toCodePoints: the string is already held as its codepoint sequence
toCodePoints(str) == str

cpLen(str) == Len(toCodePoints(str))

cpSlice(str, start, end) == ArraySlice(toCodePoints(str), start, end)

cpSliceFrom(str, start) == ArraySliceFrom(toCodePoints(str), start)

RECURSIVE stripUnsafeCharacters(_)
stripUnsafeCharacters(str) ==
    IF str = <<>> THEN <<>>
    ELSE IF IsUnsafe(Head(str)) THEN stripUnsafeCharacters(Tail(str))
    ELSE <<Head(str)>> \o stripUnsafeCharacters(Tail(str))

\* isCombining, U+200D and the variation selectors: "COMB" is U+0301, "ZWJ" is U+200D
IsZeroWidth(cp) == cp \in {"COMB", "ZWJ"}

\* isWide: "CJK" is U+4E2D, "EMOJI" is U+1F600
isWide(cp) == cp \in {"CJK", "EMOJI"}

charWidth(ch) == IF IsZeroWidth(ch) THEN 0 ELSE IF isWide(ch) THEN 2 ELSE 1

\* the sum of charWidth over the first i codepoints of cps (a width is 0, 1 or 2)
PrefixWidth(cps, i) ==
    Cardinality({k \in 1..i : charWidth(cps[k]) = 1})
    + 2 * Cardinality({k \in 1..i : charWidth(cps[k]) = 2})

\* the display width of a string: the sum of the widths of its codepoints
getCachedStringWidth(str) == PrefixWidth(toCodePoints(str), Len(toCodePoints(str)))

-----------------------------------------------------------------------------
(* src-ts/hooks/useTextBuffer.ts: pure helpers *)

RECURSIVE ReplaceCRLF(_)
\* .replace(/\r\n/g, '\n')
ReplaceCRLF(s) ==
    IF s = <<>> THEN <<>>
    ELSE IF Len(s) >= 2 /\ s[1] = "CR" /\ s[2] = "LF"
         THEN <<"LF">> \o ReplaceCRLF(SubSeq(s, 3, Len(s)))
         ELSE <<Head(s)>> \o ReplaceCRLF(Tail(s))

\* .replace(/\r/g, '\n')
ReplaceCR(s) == [i \in 1..Len(s) |-> IF s[i] = "CR" THEN "LF" ELSE s[i]]

\* normalizeText without its second replace: a lone carriage return stays
normalizeTextKeepCR(text) == ReplaceCRLF(stripUnsafeCharacters(text))

normalizeText(text) == ReplaceCR(ReplaceCRLF(stripUnsafeCharacters(text)))

RECURSIVE SplitLF(_)
\* String.prototype.split('\n'): at least one part
SplitLF(s) ==
    IF \A i \in 1..Len(s) : s[i] # "LF" THEN <<s>>
    ELSE LET k == CHOOSE i \in 1..Len(s) :
                      s[i] = "LF" /\ \A j \in 1..(i - 1) : s[j] # "LF"
         IN  <<SubSeq(s, 1, k - 1)>> \o SplitLF(SubSeq(s, k + 1, Len(s)))

\* an array hole or undefined element
UNDEF == <<"undefined">>

\* x ?? '' for an array element
OrEmpty(x) == IF x = UNDEF THEN <<>> ELSE x

\* lines[i] ?? ''
LineAt(lines, i) == IF i >= 0 /\ i < Len(lines) THEN OrEmpty(lines[i + 1]) ELSE <<>>

RECURSIVE JoinLF(_)
\* Array.prototype.join('\n'): holes and undefined join as ''
JoinLF(parts) ==
    IF parts = <<>> THEN <<>>
    ELSE IF Len(parts) = 1 THEN OrEmpty(parts[1])
    ELSE OrEmpty(Head(parts)) \o <<"LF">> \o JoinLF(Tail(parts))

\* copy[i] = v on a copy of the array: writing past the end leaves holes
ArraySet(arr, i, v) ==
    IF i < Len(arr) THEN [arr EXCEPT ![i + 1] = v]
    ELSE arr \o [k \in 1..(i - Len(arr)) |-> UNDEF] \o <<v>>

\* arr.splice(start, 2, item) on a copy of the array
Splice2(arr, start, item) ==
    LET a == Min(start, Len(arr))
    IN  SubSeq(arr, 1, a) \o <<item>> \o SubSeq(arr, a + 3, Len(arr))

clamp(n, min, max) == IF n < min THEN min ELSE IF n > max THEN max ELSE n

splitLineAtCursor(line, cursorCol) ==
    [before |-> cpSlice(line, 0, cursorCol), after |-> cpSliceFrom(line, cursorCol)]

setTextState(text) ==
    LET normalized == normalizeText(text)
        lines == SplitLF(normalized)
        lastRow == Max(0, Len(lines) - 1)
        lastCol == cpLen(LineAt(lines, lastRow))
    IN  [lines |-> IF Len(lines) = 0 THEN << <<>> >> ELSE lines,
         cursorRow |-> lastRow,
         cursorCol |-> lastCol,
         collapsedBlocks |-> <<>>,
         nextBlockId |-> 1]

RECURSIVE Digits(_)
\* the decimal digits of a number, as a string template prints it
Digits(n) ==
    LET d == <<"0", "1", "2", "3", "4", "5", "6", "7", "8", "9">>
    IN  IF n < 10 THEN <<d[n + 1]>> ELSE Digits(n \div 10) \o <<d[(n % 10) + 1]>>

\* `[Pasted text #${nextBlockId} +${lineCount} lines]`
Placeholder(id, lineCount) ==
    <<"[", "P", "a", "s", "t", "e", "d", " ", "t", "e", "x", "t", " ", "#">>
    \o Digits(id) \o <<" ", "+">> \o Digits(lineCount)
    \o <<" ", "l", "i", "n", "e", "s", "]">>

\* the index in the registry of the first block that satisfies P, or 0:
\* Array.prototype.find
FindFirst(blocks, P(_)) ==
    IF \E i \in 1..Len(blocks) : P(blocks[i])
    THEN CHOOSE i \in 1..Len(blocks) :
             P(blocks[i]) /\ \A j \in 1..(i - 1) : ~P(blocks[j])
    ELSE 0

\* the first non-expanded block registered at the cursor row whose placeholder
\* is on the cursor line (the find of isInsideCollapsedBlock, deleteCollapsedBlock,
\* applyBackspace and applyDelete)
FindCollapsedAtCursor(s) ==
    LET currentLine == LineAt(s.lines, s.cursorRow)
        P(b) == b.startLine = s.cursorRow /\ ~b.isExpanded
                /\ Includes(currentLine, b.placeholder)
    IN  FindFirst(s.collapsedBlocks, P)

isInsideCollapsedBlock(s) ==
    LET currentLine == LineAt(s.lines, s.cursorRow)
        i == FindCollapsedAtCursor(s)
    IN  IF i = 0 THEN FALSE
        ELSE LET block == s.collapsedBlocks[i]
                 placeholderIndex == IndexOf(currentLine, block.placeholder)
                 placeholderEnd == placeholderIndex + cpLen(block.placeholder)
             IN  IF placeholderIndex = -1 THEN FALSE
                 ELSE s.cursorCol > placeholderIndex /\ s.cursorCol < placeholderEnd

-----------------------------------------------------------------------------
(* src-ts/hooks/useTextBuffer.ts: the reducer *)

\* applyCollapsedInsert without the increment of nextBlockId
applyCollapsedInsertSameId(s, insertLines) ==
    LET lineCount == Len(insertLines)
        block == [id |-> s.nextBlockId,
                  startLine |-> s.cursorRow,
                  lineCount |-> lineCount,
                  content |-> insertLines,
                  isExpanded |-> FALSE,
                  placeholder |-> Placeholder(s.nextBlockId, lineCount)]
        currentLine == LineAt(s.lines, s.cursorRow)
        sp == splitLineAtCursor(currentLine, s.cursorCol)
        newLines == ArraySet(s.lines, s.cursorRow, sp.before \o block.placeholder \o sp.after)
    IN  [s EXCEPT !.lines = newLines,
                  !.collapsedBlocks = Append(s.collapsedBlocks, block),
                  !.cursorCol = s.cursorCol + cpLen(block.placeholder)]

applyCollapsedInsert(s, insertLines) ==
    LET lineCount == Len(insertLines)
        block == [id |-> s.nextBlockId,
                  startLine |-> s.cursorRow,
                  lineCount |-> lineCount,
                  content |-> insertLines,
                  isExpanded |-> FALSE,
                  placeholder |-> Placeholder(s.nextBlockId, lineCount)]
        currentLine == LineAt(s.lines, s.cursorRow)
        sp == splitLineAtCursor(currentLine, s.cursorCol)
        newLines == ArraySet(s.lines, s.cursorRow, sp.before \o block.placeholder \o sp.after)
    IN  [s EXCEPT !.lines = newLines,
                  !.collapsedBlocks = Append(s.collapsedBlocks, block),
                  !.nextBlockId = s.nextBlockId + 1,
                  !.cursorCol = s.cursorCol + cpLen(block.placeholder)]

applyInsert(s, insertText) ==
    IF isInsideCollapsedBlock(s) THEN s
    ELSE
    LET normalized == normalizeText(insertText)
        parts == SplitLF(normalized)
        line == LineAt(s.lines, s.cursorRow)
        sp == splitLineAtCursor(line, s.cursorCol)
        n == Len(parts)
    IN  IF Len(normalized) = 0 THEN s
        ELSE IF n > COLLAPSE_THRESHOLD THEN applyCollapsedInsert(s, parts)
        ELSE IF n = 1 THEN
            [s EXCEPT !.lines = ArraySet(s.lines, s.cursorRow, sp.before \o parts[1] \o sp.after),
                      !.cursorCol = s.cursorCol + cpLen(parts[1])]
        ELSE
            LET first == sp.before \o parts[1]
                last == parts[n] \o sp.after
                middle == ArraySlice(parts, 1, -1)
                nextLines == ArraySlice(s.lines, 0, s.cursorRow) \o <<first>> \o middle
                             \o <<last>> \o ArraySliceFrom(s.lines, s.cursorRow + 1)
            IN  [s EXCEPT !.lines = nextLines,
                          !.cursorRow = s.cursorRow + n - 1,
                          !.cursorCol = cpLen(parts[n])]

\* precondition of expandBlock: state.lines[state.cursorRow] is undefined and
\* currentLine.indexOf throws a TypeError
expandBlockThrows(s) == ~(s.cursorRow >= 0 /\ s.cursorRow < Len(s.lines))

expandBlock(s, block) ==
    LET currentLine == LineAt(s.lines, s.cursorRow)
        placeholderIndex == IndexOf(currentLine, block.placeholder)
        before == StrSlice(currentLine, 0, placeholderIndex)
        after == StrSliceFrom(currentLine, placeholderIndex + U16Len(block.placeholder))
        n == Len(block.content)
        expandedLines == [i \in 1..n |->
                             IF i = 1 THEN before \o block.content[i]
                             ELSE IF i = n THEN block.content[i] \o after
                             ELSE block.content[i]]
        newLines == ArraySlice(s.lines, 0, s.cursorRow) \o expandedLines
                    \o ArraySliceFrom(s.lines, s.cursorRow + 1)
        updatedBlocks == [i \in 1..Len(s.collapsedBlocks) |->
                             IF s.collapsedBlocks[i].id = block.id
                             THEN [s.collapsedBlocks[i] EXCEPT !.isExpanded = TRUE,
                                                               !.startLine = s.cursorRow]
                             ELSE s.collapsedBlocks[i]]
        newCursorCol == IF s.cursorCol >= placeholderIndex
                           /\ s.cursorCol <= placeholderIndex + cpLen(block.placeholder)
                        THEN cpLen(before) ELSE s.cursorCol
    IN  IF placeholderIndex = -1 THEN s
        ELSE [s EXCEPT !.lines = newLines,
                       !.collapsedBlocks = updatedBlocks,
                       !.cursorCol = newCursorCol]

collapseBlock(s, block) ==
    LET startLine == block.startLine
        endLine == startLine + block.lineCount - 1
        firstLine == LineAt(s.lines, startLine)
        lastLine == LineAt(s.lines, endLine)
        firstContentIndex == IndexOf(firstLine, block.content[1])
        before == IF firstContentIndex >= 0 THEN StrSlice(firstLine, 0, firstContentIndex)
                  ELSE <<>>
        lastContent == block.content[Len(block.content)]
        lastContentIndex == IndexOf(lastLine, lastContent)
        after == IF lastContentIndex >= 0
                 THEN StrSliceFrom(lastLine, lastContentIndex + U16Len(lastContent))
                 ELSE <<>>
        collapsedLine == before \o block.placeholder \o after
        newLines == ArraySlice(s.lines, 0, startLine) \o <<collapsedLine>>
                    \o ArraySliceFrom(s.lines, endLine + 1)
        updatedBlocks == [i \in 1..Len(s.collapsedBlocks) |->
                             IF s.collapsedBlocks[i].id = block.id
                             THEN [s.collapsedBlocks[i] EXCEPT !.isExpanded = FALSE]
                             ELSE s.collapsedBlocks[i]]
        inside == s.cursorRow >= startLine /\ s.cursorRow <= endLine
    IN  [s EXCEPT !.lines = newLines,
                  !.collapsedBlocks = updatedBlocks,
                  !.cursorRow = IF inside THEN startLine
                                ELSE IF s.cursorRow > endLine
                                     THEN s.cursorRow - (endLine - startLine)
                                     ELSE s.cursorRow,
                  !.cursorCol = IF inside THEN cpLen(before \o block.placeholder)
                                ELSE s.cursorCol]

\* the first block registered at the cursor row whose placeholder is on the
\* cursor line, expanded or not (the find of toggleBlockAtCursor and of the tab key)
FindBlockAtCursor(s) ==
    LET currentLine == LineAt(s.lines, s.cursorRow)
        P(b) == b.startLine = s.cursorRow /\ Includes(currentLine, b.placeholder)
    IN  FindFirst(s.collapsedBlocks, P)

toggleBlockAtCursor(s) ==
    LET i == FindBlockAtCursor(s)
    IN  IF i = 0 THEN s
        ELSE IF s.collapsedBlocks[i].isExpanded THEN collapseBlock(s, s.collapsedBlocks[i])
        ELSE expandBlock(s, s.collapsedBlocks[i])

RECURSIVE InsertByStartLineDesc(_, _)
InsertByStartLineDesc(x, t) ==
    IF t = <<>> THEN <<x>>
    ELSE IF Head(t).startLine > x.startLine
         THEN <<Head(t)>> \o InsertByStartLineDesc(x, Tail(t))
         ELSE <<x>> \o t

RECURSIVE SortByStartLineDesc(_)
\* .sort((a, b) => b.startLine - a.startLine), a stable sort
SortByStartLineDesc(bs) ==
    IF bs = <<>> THEN <<>>
    ELSE InsertByStartLineDesc(Head(bs), SortByStartLineDesc(Tail(bs)))

\* .filter((b) => !b.isExpanded)
RECURSIVE FilterNotExpanded(_)
FilterNotExpanded(bs) ==
    IF bs = <<>> THEN <<>>
    ELSE IF Head(bs).isExpanded THEN FilterNotExpanded(Tail(bs))
    ELSE <<Head(bs)>> \o FilterNotExpanded(Tail(bs))

RECURSIVE ExpandEach(_, _)
ExpandEach(s, bs) ==
    IF bs = <<>> THEN s ELSE ExpandEach(expandBlock(s, Head(bs)), Tail(bs))

expandAllBlocks(s) ==
    ExpandEach(s, SortByStartLineDesc(FilterNotExpanded(s.collapsedBlocks)))

\* expandAllBlocks throws when it calls expandBlock with the cursor row out of range
expandAllBlocksThrows(s) ==
    FilterNotExpanded(s.collapsedBlocks) # <<>> /\ expandBlockThrows(s)

getExpandedText(s) == JoinLF(expandAllBlocks(s).lines)

\* deleteCollapsedBlock without the filter of the registry
deleteCollapsedBlockKeepsEntry(s) ==
    LET currentLine == LineAt(s.lines, s.cursorRow)
        i == FindCollapsedAtCursor(s)
    IN  IF i = 0 THEN s
        ELSE
        LET block == s.collapsedBlocks[i]
            placeholderIndex == IndexOf(currentLine, block.placeholder)
            before == StrSlice(currentLine, 0, placeholderIndex)
            after == StrSliceFrom(currentLine, placeholderIndex + U16Len(block.placeholder))
        IN  IF placeholderIndex = -1 THEN s
            ELSE [s EXCEPT !.lines = ArraySet(s.lines, s.cursorRow, before \o after),
                           !.cursorCol = placeholderIndex]

deleteCollapsedBlock(s) ==
    LET currentLine == LineAt(s.lines, s.cursorRow)
        i == FindCollapsedAtCursor(s)
    IN  IF i = 0 THEN s
        ELSE
        LET block == s.collapsedBlocks[i]
            placeholderIndex == IndexOf(currentLine, block.placeholder)
            before == StrSlice(currentLine, 0, placeholderIndex)
            after == StrSliceFrom(currentLine, placeholderIndex + U16Len(block.placeholder))
        IN  IF placeholderIndex = -1 THEN s
            ELSE [s EXCEPT !.lines = ArraySet(s.lines, s.cursorRow, before \o after),
                           !.collapsedBlocks = SelectSeq(s.collapsedBlocks,
                                                         LAMBDA b : b.id # block.id),
                           !.cursorCol = placeholderIndex]

\* applyBackspace whose join leaves the cursor at column 0
applyBackspaceJoinAtZero(s) ==
    LET i == FindCollapsedAtCursor(s)
        currentLine == LineAt(s.lines, s.cursorRow)
        atEnd == i # 0 /\ s.cursorCol = IndexOf(currentLine, s.collapsedBlocks[i].placeholder)
                                        + cpLen(s.collapsedBlocks[i].placeholder)
        line == LineAt(s.lines, s.cursorRow)
        len == cpLen(line)
    IN  IF isInsideCollapsedBlock(s) THEN s
        ELSE IF atEnd THEN deleteCollapsedBlock(s)
        ELSE IF s.cursorCol > 0 THEN
            [s EXCEPT !.lines = ArraySet(s.lines, s.cursorRow,
                                         cpSlice(line, 0, s.cursorCol - 1)
                                         \o cpSliceFrom(line, s.cursorCol)),
                      !.cursorCol = s.cursorCol - 1]
        ELSE IF s.cursorRow > 0 THEN
            LET prev == LineAt(s.lines, s.cursorRow - 1)
            IN  [s EXCEPT !.lines = Splice2(s.lines, s.cursorRow - 1, prev \o line),
                          !.cursorRow = s.cursorRow - 1,
                          !.cursorCol = 0]
        ELSE [s EXCEPT !.cursorCol = clamp(s.cursorCol, 0, len)]

applyBackspace(s) ==
    LET i == FindCollapsedAtCursor(s)
        currentLine == LineAt(s.lines, s.cursorRow)
        atEnd == i # 0 /\ s.cursorCol = IndexOf(currentLine, s.collapsedBlocks[i].placeholder)
                                        + cpLen(s.collapsedBlocks[i].placeholder)
        line == LineAt(s.lines, s.cursorRow)
        len == cpLen(line)
    IN  IF isInsideCollapsedBlock(s) THEN s
        ELSE IF atEnd THEN deleteCollapsedBlock(s)
        ELSE IF s.cursorCol > 0 THEN
            [s EXCEPT !.lines = ArraySet(s.lines, s.cursorRow,
                                         cpSlice(line, 0, s.cursorCol - 1)
                                         \o cpSliceFrom(line, s.cursorCol)),
                      !.cursorCol = s.cursorCol - 1]
        ELSE IF s.cursorRow > 0 THEN
            LET prev == LineAt(s.lines, s.cursorRow - 1)
            IN  [s EXCEPT !.lines = Splice2(s.lines, s.cursorRow - 1, prev \o line),
                          !.cursorRow = s.cursorRow - 1,
                          !.cursorCol = cpLen(prev)]
        ELSE [s EXCEPT !.cursorCol = clamp(s.cursorCol, 0, len)]

applyDelete(s) ==
    LET i == FindCollapsedAtCursor(s)
        currentLine == LineAt(s.lines, s.cursorRow)
        atStart == i # 0 /\ s.cursorCol = IndexOf(currentLine, s.collapsedBlocks[i].placeholder)
        line == LineAt(s.lines, s.cursorRow)
        len == cpLen(line)
    IN  IF isInsideCollapsedBlock(s) THEN s
        ELSE IF atStart THEN deleteCollapsedBlock(s)
        ELSE IF s.cursorCol < len THEN
            [s EXCEPT !.lines = ArraySet(s.lines, s.cursorRow,
                                         cpSlice(line, 0, s.cursorCol)
                                         \o cpSliceFrom(line, s.cursorCol + 1))]
        ELSE IF s.cursorRow < Len(s.lines) - 1 THEN
            LET next == LineAt(s.lines, s.cursorRow + 1)
            IN  [s EXCEPT !.lines = Splice2(s.lines, s.cursorRow, line \o next)]
        ELSE s

\* moveCursor with the column clamped to the line it leaves
moveCursorOldLine(s, deltaRow, deltaCol) ==
    LET nextRow == clamp(s.cursorRow + deltaRow, 0, Len(s.lines) - 1)
        nextLineLen == cpLen(LineAt(s.lines, s.cursorRow))
        nextCol == clamp(s.cursorCol + deltaCol, 0, nextLineLen)
    IN  [s EXCEPT !.cursorRow = nextRow, !.cursorCol = nextCol]

moveCursor(s, deltaRow, deltaCol) ==
    LET nextRow == clamp(s.cursorRow + deltaRow, 0, Len(s.lines) - 1)
        nextLineLen == cpLen(LineAt(s.lines, nextRow))
        nextCol == clamp(s.cursorCol + deltaCol, 0, nextLineLen)
    IN  [s EXCEPT !.cursorRow = nextRow, !.cursorCol = nextCol]

-----------------------------------------------------------------------------
(* src-ts/hooks/useTextBuffer.ts: wrapping and layout *)

\* prefix[i], 0 <= i <= cps.length: the width of the first i codepoints
computePrefixWidths(cps) == [i \in 0..Len(cps) |-> PrefixWidth(cps, i)]

\* findLastSpace searching forward: the first space of the window
findLastSpaceForward(cps, start, endExclusive) ==
    LET spaces == {i \in start..(endExclusive - 1) : cps[i + 1] = " "}
    IN  IF spaces = {} THEN -1 ELSE CHOOSE i \in spaces : \A j \in spaces : i <= j

\* the last index i, start <= i < endExclusive, with cps[i] a space, or -1
findLastSpace(cps, start, endExclusive) ==
    LET spaces == {i \in start..(endExclusive - 1) : cps[i + 1] = " "}
    IN  IF spaces = {} THEN -1 ELSE CHOOSE i \in spaces : \A j \in spaces : j <= i

RECURSIVE WrapEnd(_, _, _, _)
\* the inner loop of wrapLogicalLine at `end`, where w = prefix[end] - prefix[start]:
\* the first end whose codepoint makes the segment wider than maxWidth, or cps.length
WrapEnd(cps, end, w, maxWidth) ==
    IF end >= Len(cps) THEN end
    ELSE IF w + charWidth(cps[end + 1]) > maxWidth THEN end
    ELSE WrapEnd(cps, end + 1, w + charWidth(cps[end + 1]), maxWidth)

RECURSIVE WrapFrom(_, _, _)
\* the outer loop of wrapLogicalLine from `start`: the segments with their starts
WrapFrom(cps, start, maxWidth) ==
    IF start >= Len(cps) THEN <<>>
    ELSE LET end == WrapEnd(cps, start, 0, maxWidth)
             lastSpace == findLastSpace(cps, start, end)
         IN  IF end >= Len(cps)
             THEN <<[start |-> start, text |-> ArraySliceFrom(cps, start)]>>
             ELSE IF end = start
             THEN <<[start |-> start, text |-> ArraySlice(cps, start, start + 1)]>>
                  \o WrapFrom(cps, start + 1, maxWidth)
             ELSE IF lastSpace >= start
             THEN <<[start |-> start, text |-> ArraySlice(cps, start, lastSpace)]>>
                  \o WrapFrom(cps, lastSpace + 1, maxWidth)
             ELSE <<[start |-> start, text |-> ArraySlice(cps, start, end)]>>
                  \o WrapFrom(cps, end, maxWidth)

\* wrapLogicalLine with a limit one column too wide
wrapLogicalLineOffByOne(logicalLine, width) ==
    LET maxWidth == Max(1, width) + 1
        cps == toCodePoints(logicalLine)
        segs == IF Len(cps) = 0 THEN <<[start |-> 0, text |-> <<>>]>>
                ELSE WrapFrom(cps, 0, maxWidth)
    IN  [segments |-> [i \in 1..Len(segs) |-> segs[i].text],
         segmentStarts |-> [i \in 1..Len(segs) |-> segs[i].start]]

wrapLogicalLine(logicalLine, width) ==
    LET maxWidth == Max(1, width)
        cps == toCodePoints(logicalLine)
        segs == IF Len(cps) = 0 THEN <<[start |-> 0, text |-> <<>>]>>
                ELSE WrapFrom(cps, 0, maxWidth)
    IN  [segments |-> [i \in 1..Len(segs) |-> segs[i].text],
         segmentStarts |-> [i \in 1..Len(segs) |-> segs[i].start]]

RECURSIVE VisualLinesOf(_, _)
\* the visual lines of the logical lines, in order
VisualLinesOf(logicalLines, width) ==
    IF logicalLines = <<>> THEN <<>>
    ELSE wrapLogicalLine(Head(logicalLines), width).segments
         \o VisualLinesOf(Tail(logicalLines), width)

\* CursorInLine with the loop test segmentStarts[segIndex + 1] < clampedCursorCol
CursorInLineBeforeBoundary(logicalLine, width, cursorCol) ==
    LET cps == toCodePoints(logicalLine)
        prefix == computePrefixWidths(cps)
        segmentStarts == wrapLogicalLine(logicalLine, width).segmentStarts
        clampedCursorCol == clamp(cursorCol, 0, Len(cps))
        reached == {1} \cup {i \in 1..Len(segmentStarts) : segmentStarts[i] < clampedCursorCol}
        segIndex == (CHOOSE i \in reached : \A j \in reached : j <= i) - 1
    IN  [row |-> segIndex,
         col |-> prefix[clampedCursorCol] - prefix[segmentStarts[segIndex + 1]]]

\* the visual cursor of logical column cursorCol on a line
CursorInLine(logicalLine, width, cursorCol) ==
    LET cps == toCodePoints(logicalLine)
        prefix == computePrefixWidths(cps)
        segmentStarts == wrapLogicalLine(logicalLine, width).segmentStarts
        clampedCursorCol == clamp(cursorCol, 0, Len(cps))
        reached == {i \in 1..Len(segmentStarts) : segmentStarts[i] <= clampedCursorCol}
        \* segmentStarts is increasing: the loop stops at the last start <= the column
        segIndex == (CHOOSE i \in reached : \A j \in reached : j <= i) - 1
    IN  [row |-> segIndex,
         col |-> prefix[clampedCursorCol] - prefix[segmentStarts[segIndex + 1]]]

calculateLayout(logicalLines, width, cursorRow, cursorCol) ==
    LET visualLines == VisualLinesOf(logicalLines, width)
        visualRowForLogicalRow ==
            [i \in 1..Len(logicalLines) |->
                Len(VisualLinesOf(SubSeq(logicalLines, 1, i - 1), width))]
        inLine == CursorInLine(logicalLines[cursorRow + 1], width, cursorCol)
    IN  IF Len(logicalLines) = 0
        THEN [visualLines |-> << <<>> >>, cursor |-> [row |-> 0, col |-> 0],
              visualRowForLogicalRow |-> <<0>>]
        ELSE [visualLines |-> visualLines,
              cursor |-> IF cursorRow \in 0..(Len(logicalLines) - 1)
                         THEN [row |-> visualRowForLogicalRow[cursorRow + 1] + inLine.row,
                               col |-> inLine.col]
                         ELSE [row |-> 0, col |-> 0],
              visualRowForLogicalRow |-> visualRowForLogicalRow]

\* the scroll effect without its final clamp to [0, maxScroll]
ScrollEffectNoClamp(cursorRow, visualLineCount, height, scroll) ==
    IF cursorRow < scroll THEN cursorRow
    ELSE IF cursorRow >= scroll + height THEN cursorRow - height + 1
    ELSE scroll

\* one run of the scroll effect: the scrollRow it sets
ScrollEffect(cursorRow, visualLineCount, height, scroll) ==
    LET maxScroll == Max(0, visualLineCount - height)
        nextScroll == IF cursorRow < scroll THEN cursorRow
                      ELSE IF cursorRow >= scroll + height THEN cursorRow - height + 1
                      ELSE scroll
    IN  clamp(nextScroll, 0, maxScroll)

-----------------------------------------------------------------------------
(* The inputs of the model *)

\* the viewports of the input surface: [width, height]
Viewports == { [width |-> 20, height |-> 2] }

\* no pure function is applied
NoCall == [op |-> "none"]

\* new Map()
EmptyMap == <<>>

\* initialText of the hook
InitTexts == { <<>>, <<"x", "LF", "EMOJI">> }

\* arguments of setText (a history entry or a draft)
SetTexts == { <<>>, <<"a", "CR", "LF", "BEL", "LF">> }

\* key.sequence of a typed key: one codepoint
TypedSeqs == { <<"x">>, <<"EMOJI">> }

\* key.sequence of a multi-line chunk of a paste
FragmentSeqs == { <<"a", "CR", "LF", "b", "BEL", "LF", "c">>,
                  <<"a", "LF", "b", "LF", "c", "LF", "d", "LF", "e", "LF", "f">> }

-----------------------------------------------------------------------------
(* useTextBuffer: the hook *)

Init ==
    /\ \E initialText \in InitTexts : state = setTextState(initialText)
    /\ pasteBufferRef = <<>>
    /\ pasteCursorRef = Null
    /\ pasteTimeoutRef = NoTimer
    /\ timers = {}
    /\ pasteFragments = <<>>
    /\ nEdits = 0
    /\ nFragments = 0
    /\ nSetText = 0
    /\ nMoves = 0
    /\ mounted = TRUE
    /\ crashed = FALSE
    /\ \E v \in Viewports : viewportWidth = v.width /\ viewportHeight = v.height
    /\ scrollRow = 0
    /\ effectPending = FALSE
    /\ call = NoCall
    /\ codePointsCache = EmptyMap
    /\ stringWidthCache = EmptyMap

alive == mounted /\ ~crashed

\* calculateLayout reads logicalLines[row].length of an array hole: the render throws
RenderThrows(s) == \E i \in 1..Len(s.lines) : s.lines[i] = UNDEF

\* handleKey without its clearTimeout: the earlier timeout stays scheduled
ClearPasteTimeoutSkipped(ts) == ts

\* clearTimeout(pasteTimeoutRef.current)
ClearPasteTimeout(ts) == {t \in ts : t.id # pasteTimeoutRef}

\* setState(next) followed by the render of the new snapshot; a render that throws
\* takes the program down with its timers
\* the viewport.  scrollRow is written by the scroll effect and by setText and
\* is read by no handler and by no reducer: Spec follows the buffer and the
\* paste controller and leaves the viewport where it is, ViewSpec follows the
\* buffer together with the viewport.
view == <<scrollRow, viewportWidth, viewportHeight, effectPending, call,
         codePointsCache, stringWidthCache>>

Commit(next) ==
    /\ state' = next
    /\ crashed' = RenderThrows(next)
    /\ timers' = IF RenderThrows(next) THEN {} ELSE timers
    /\ UNCHANGED view

paste == <<pasteBufferRef, pasteCursorRef, pasteTimeoutRef, pasteFragments>>

\* an edit counts against MaxEdits when it changes the snapshot
Edit(next) ==
    /\ next # state => nEdits < MaxEdits
    /\ nEdits' = IF next # state THEN nEdits + 1 ELSE nEdits
    /\ Commit(next)
    /\ UNCHANGED <<paste, nFragments, nSetText, nMoves, mounted>>

\* a cursor key counts against MaxMoves
Move(next) ==
    /\ nMoves < MaxMoves
    /\ nMoves' = nMoves + 1
    /\ Commit(next)
    /\ UNCHANGED <<paste, nEdits, nFragments, nSetText, mounted>>

Toggle(next) ==
    /\ Commit(next)
    /\ UNCHANGED <<paste, nEdits, nFragments, nSetText, nMoves, mounted>>

KeyLeft == alive /\ Move(moveCursor(state, 0, -1))

KeyRight == alive /\ Move(moveCursor(state, 0, 1))

KeyUp == alive /\ Move(moveCursor(state, -1, 0))

KeyDown == alive /\ Move(moveCursor(state, 1, 0))

KeyBackspace == alive /\ Edit(applyBackspace(state))

KeyDelete == alive /\ Edit(applyDelete(state))

\* the tab key toggles the block on the cursor line, or inserts key.sequence
KeyTab ==
    /\ alive
    /\ IF FindBlockAtCursor(state) # 0
       THEN Toggle(toggleBlockAtCursor(state))
       ELSE Edit(applyInsert(state, <<"TAB">>))

\* shift+return (or ctrl/meta+return) inserts a line feed
KeyShiftReturn == alive /\ Edit(applyInsert(state, <<"LF">>))

\* a key whose sequence normalizes to one line
KeySequence(seq) ==
    /\ alive
    /\ Len(SplitLF(normalizeText(seq))) = 1
    /\ Edit(applyInsert(state, seq))

\* a key whose sequence normalizes to several lines: buffered, the timer rescheduled
KeyFragment(seq) ==
    LET parts == SplitLF(normalizeText(seq))
        isNewPaste == \/ Len(pasteBufferRef) = 0
                      \/ pasteCursorRef = Null
                      \/ pasteCursorRef.row # state.cursorRow
                      \/ pasteCursorRef.col # state.cursorCol
    IN  /\ alive
        /\ Len(parts) > 1
        /\ nFragments < MaxFragments
        /\ nFragments' = nFragments + 1
        /\ pasteBufferRef' = IF isNewPaste THEN parts ELSE pasteBufferRef \o parts
        /\ pasteCursorRef' = IF isNewPaste
                             THEN [row |-> state.cursorRow, col |-> state.cursorCol]
                             ELSE pasteCursorRef
        /\ pasteFragments' = IF isNewPaste THEN <<seq>> ELSE Append(pasteFragments, seq)
        /\ timers' = ClearPasteTimeout(timers)
                     \cup {[id |-> nFragments + 1, due |-> DEBOUNCE_MS]}
        /\ pasteTimeoutRef' = nFragments + 1
        /\ UNCHANGED <<state, nEdits, nSetText, nMoves, mounted, crashed, view>>

\* the insert the timeout callback applies: the accumulated lines at the anchor
PasteInsert(s, allParts, startCursor) ==
    applyInsert([s EXCEPT !.cursorRow = startCursor.row, !.cursorCol = startCursor.col],
                normalizeText(JoinLF(allParts)))

\* a pending timeout runs
PasteTimeout(t) ==
    /\ ~crashed
    /\ t \in timers
    /\ t.due = 0
    /\ UNCHANGED <<pasteTimeoutRef, nEdits, nFragments, nSetText, nMoves, mounted, view>>
    /\ IF ~mounted \/ Len(pasteBufferRef) = 0
       THEN \* totalLines === 0, or a setState on an unmounted component: nothing happens
            /\ timers' = timers \ {t}
            /\ UNCHANGED <<state, pasteBufferRef, pasteCursorRef, pasteFragments, crashed>>
       ELSE IF pasteCursorRef = Null
       THEN \* pasteCursorRef.current!.row throws
            /\ crashed' = TRUE
            /\ timers' = {}
            /\ UNCHANGED <<state, pasteBufferRef, pasteCursorRef, pasteFragments>>
       ELSE LET next == PasteInsert(state, pasteBufferRef, pasteCursorRef)
            IN  /\ pasteBufferRef' = <<>>
                /\ pasteCursorRef' = Null
                /\ pasteFragments' = <<>>
                /\ state' = next
                /\ crashed' = RenderThrows(next)
                /\ timers' = IF RenderThrows(next) THEN {} ELSE timers \ {t}

\* TickMs pass; a timeout runs when it is due, not later
Tick ==
    /\ ~crashed
    /\ timers # {}
    /\ \A t \in timers : t.due >= TickMs
    /\ timers' = {[t EXCEPT !.due = t.due - TickMs] : t \in timers}
    /\ UNCHANGED <<state, paste, nEdits, nFragments, nSetText, nMoves, mounted, crashed,
                   view>>

SetText(nextText) ==
    /\ alive
    /\ nSetText < MaxSetText
    /\ nSetText' = nSetText + 1
    /\ Commit(setTextState(nextText))
    /\ UNCHANGED <<paste, nEdits, nFragments, nMoves, mounted>>

ToggleBlockAtCursor == alive /\ Toggle(toggleBlockAtCursor(state))

\* InputArea, plain return: onSubmit(buffer.expandAllBlocks()); buffer.setText('')
Submit ==
    /\ alive
    /\ nSetText < MaxSetText
    /\ nSetText' = nSetText + 1
    /\ IF expandAllBlocksThrows(state)
       THEN crashed' = TRUE /\ timers' = {} /\ UNCHANGED <<state, view>>
       ELSE Commit(setTextState(<<>>))
    /\ UNCHANGED <<paste, nEdits, nFragments, nMoves, mounted>>

\* the cleanup effect without its clearTimeout
UnmountNoClear ==
    /\ alive
    /\ mounted' = FALSE
    /\ UNCHANGED <<state, paste, timers, nEdits, nFragments, nSetText, nMoves, crashed,
                   view>>

\* the cleanup effect of the hook: the component unmounts
Unmount ==
    /\ alive
    /\ mounted' = FALSE
    /\ timers' = ClearPasteTimeout(timers)
    /\ UNCHANGED <<state, paste, nEdits, nFragments, nSetText, nMoves, crashed, view>>

Next ==
    \/ KeyLeft
    \/ KeyRight
    \/ KeyUp
    \/ KeyDown
    \/ KeyBackspace
    \/ KeyDelete
    \/ KeyTab
    \/ KeyShiftReturn
    \/ \E seq \in TypedSeqs : KeySequence(seq)
    \/ \E seq \in FragmentSeqs : KeyFragment(seq)
    \/ \E t \in timers : PasteTimeout(t)
    \/ Tick
    \/ \E nextText \in SetTexts : SetText(nextText)
    \/ ToggleBlockAtCursor
    \/ Submit
    \/ Unmount

Spec == Init /\ [][Next]_vars

-----------------------------------------------------------------------------
(* src-ts/components/InputArea.tsx: history navigation over the buffer *)

\* historyIndex === null
NoHistoryIndex == -1

\* the state of InputArea around buffer snapshot s: the history of submitted
\* texts, no entry recalled, an empty draft
InputAreaOver(s, history) ==
    [buffer |-> s, history |-> history, historyIndex |-> NoHistoryIndex, draft |-> <<>>]

\* key up with buffer.cursorRow === 0
HistoryUp(ia) ==
    IF ia.historyIndex = NoHistoryIndex
    THEN IF Len(ia.history) > 0
         THEN [ia EXCEPT !.draft = JoinLF(ia.buffer.lines),
                         !.historyIndex = Len(ia.history) - 1,
                         !.buffer = setTextState(ia.history[Len(ia.history)])]
         ELSE ia
    ELSE IF ia.historyIndex > 0
    THEN [ia EXCEPT !.historyIndex = ia.historyIndex - 1,
                    !.buffer = setTextState(ia.history[ia.historyIndex])]
    ELSE ia

\* key down with buffer.cursorRow === buffer.lineCount - 1 and an entry recalled
HistoryDown(ia) ==
    IF ia.historyIndex = NoHistoryIndex THEN ia
    ELSE IF ia.historyIndex < Len(ia.history) - 1
    THEN [ia EXCEPT !.historyIndex = ia.historyIndex + 1,
                    !.buffer = setTextState(ia.history[ia.historyIndex + 2])]
    ELSE [ia EXCEPT !.historyIndex = NoHistoryIndex,
                    !.buffer = setTextState(ia.draft)]

\* the history after one earlier submit
SubmittedBefore == << <<"h", "i">> >>

-----------------------------------------------------------------------------
(* useTextBuffer: the buffer and its viewport *)

\* initialText of the hook
ViewTexts == { <<>>, <<"a", "b", " ", "c", "LF", "CJK", "COMB">> }

\* the viewports of the input surface: [width, height]
ViewViewports == { [width |-> 3, height |-> 1], [width |-> 8, height |-> 2] }

\* key.sequence of a typed key
ViewSeqs == { <<"x">>, <<"CJK">> }

\* the text of a paste of six lines
ViewPastes == { <<"a", "LF", "b", "LF", "c", "LF", "d", "LF", "e", "LF", "f">> }

\* arguments of setText
ViewSetTexts == { <<>>, <<"a", "CR", "LF", "b", "BEL", "CR", "EMOJI">> }

ViewInit ==
    /\ \E initialText \in ViewTexts : state = setTextState(initialText)
    /\ \E v \in ViewViewports : viewportWidth = v.width /\ viewportHeight = v.height
    /\ scrollRow = 0
    /\ effectPending = TRUE
    /\ pasteBufferRef = <<>>
    /\ pasteCursorRef = Null
    /\ pasteTimeoutRef = NoTimer
    /\ timers = {}
    /\ pasteFragments = <<>>
    /\ nEdits = 0
    /\ nFragments = 0
    /\ nSetText = 0
    /\ nMoves = 0
    /\ mounted = TRUE
    /\ crashed = FALSE
    /\ call = NoCall
    /\ codePointsCache = EmptyMap
    /\ stringWidthCache = EmptyMap

\* the layout of the rendered snapshot (the useMemo of calculateLayout)
Layout == calculateLayout(state.lines, viewportWidth, state.cursorRow, state.cursorCol)

\* the scrollRow the scroll effect computes from the rendered snapshot
NextScroll ==
    ScrollEffect(Layout.cursor.row, Len(Layout.visualLines), viewportHeight, scrollRow)

\* the scroll effect has nothing left to set
ViewSettled == NextScroll = scrollRow

\* React runs the pending effects before it handles the next input event
ViewReady == mounted /\ ~crashed /\ ~effectPending

viewFrame == <<paste, timers, mounted, viewportWidth, viewportHeight, call,
              codePointsCache, stringWidthCache>>

\* setState(next) and the render of the new snapshot, after which the scroll
\* effect is due (it sets nothing when none of its dependencies changed)
ViewCommit(next) ==
    /\ state' = next
    /\ crashed' = RenderThrows(next)
    /\ effectPending' = ~RenderThrows(next)
    /\ UNCHANGED viewFrame

\* an arrow key
ViewMove(deltaRow, deltaCol) ==
    /\ ViewReady
    /\ nMoves < MaxViewMoves
    /\ nMoves' = nMoves + 1
    /\ ViewCommit(moveCursor(state, deltaRow, deltaCol))
    /\ UNCHANGED <<scrollRow, nEdits, nFragments, nSetText>>

ViewEdit(next) ==
    /\ ViewReady
    /\ nEdits < MaxViewEdits
    /\ nEdits' = nEdits + 1
    /\ ViewCommit(next)
    /\ UNCHANGED <<scrollRow, nMoves, nFragments, nSetText>>

\* a typed sequence: applyInsert at the cursor
ViewInsert(seq) == ViewEdit(applyInsert(state, seq))

\* a paste whose timeout runs with the cursor still at its anchor: applyInsert
ViewPaste(text) ==
    /\ ViewReady
    /\ nFragments < MaxViewPastes
    /\ nFragments' = nFragments + 1
    /\ ViewCommit(applyInsert(state, normalizeText(JoinLF(SplitLF(normalizeText(text))))))
    /\ UNCHANGED <<scrollRow, nEdits, nMoves, nSetText>>

ViewBackspace == ViewEdit(applyBackspace(state))

ViewDelete == ViewEdit(applyDelete(state))

\* toggleBlockAtCursor of the hook
ViewToggle ==
    /\ ViewReady
    /\ toggleBlockAtCursor(state) # state
    /\ ViewCommit(toggleBlockAtCursor(state))
    /\ UNCHANGED <<scrollRow, nEdits, nMoves, nFragments, nSetText>>

\* setText without setScrollRow(0)
ViewSetTextKeepsScroll(nextText) ==
    /\ ViewReady
    /\ nSetText < MaxSetText
    /\ nSetText' = nSetText + 1
    /\ ViewCommit(setTextState(nextText))
    /\ UNCHANGED <<scrollRow, nEdits, nMoves, nFragments>>

\* setText: setState(setTextState(nextText)); setScrollRow(0)
ViewSetText(nextText) ==
    /\ ViewReady
    /\ nSetText < MaxSetText
    /\ nSetText' = nSetText + 1
    /\ ViewCommit(setTextState(nextText))
    /\ scrollRow' = 0
    /\ UNCHANGED <<nEdits, nMoves, nFragments>>

\* the scroll effect runs after a render; when it sets scrollRow the hook
\* renders again and, scrollRow being a dependency, the effect is due again
ScrollRun ==
    /\ mounted /\ ~crashed
    /\ effectPending
    /\ scrollRow' = NextScroll
    /\ effectPending' = (NextScroll # scrollRow)
    /\ UNCHANGED <<state, crashed, nEdits, nMoves, nFragments, nSetText, viewFrame>>

ViewNext ==
    \/ \E d \in {-1, 1} : ViewMove(d, 0)
    \/ \E d \in {-1, 1} : ViewMove(0, d)
    \/ \E seq \in ViewSeqs : ViewInsert(seq)
    \/ \E text \in ViewPastes : ViewPaste(text)
    \/ ViewBackspace
    \/ ViewDelete
    \/ ViewToggle
    \/ \E nextText \in ViewSetTexts : ViewSetText(nextText)
    \/ ScrollRun

ViewSpec == ViewInit /\ [][ViewNext]_vars

-----------------------------------------------------------------------------
(* useTextBuffer: what the hook exports of the viewport, and viewports of any size *)

\* the slice of the visual lines from scroll on, without the padding
viewportVisualLinesUnpadded(visualLines, scroll, height) ==
    ArraySlice(visualLines, scroll, scroll + height)

\* layout.visualLines.slice(scrollRow, scrollRow + viewportHeight), padded with ''
viewportVisualLines(visualLines, scroll, height) ==
    LET slice == ArraySlice(visualLines, scroll, scroll + height)
    IN  IF Len(slice) >= height THEN slice
        ELSE slice \o [i \in 1..(height - Len(slice)) |-> <<>>]

visualCursor(cursor, scroll, height, width) ==
    [row |-> clamp(cursor.row - scroll, 0, height - 1),
     col |-> clamp(cursor.col, 0, Max(0, width))]

\* the exports of the rendered snapshot
ViewportVisualLines == viewportVisualLines(Layout.visualLines, scrollRow, viewportHeight)

VisualCursor == visualCursor(Layout.cursor, scrollRow, viewportHeight, viewportWidth)

\* viewports the caller may hand over: zero and negative sizes included
GeomViewports ==
    { [width |-> 0, height |-> 0], [width |-> -1, height |-> -1],
      [width |-> 0, height |-> 1], [width |-> 4, height |-> 3] }

GeomInit ==
    /\ \E initialText \in ViewTexts : state = setTextState(initialText)
    /\ \E v \in GeomViewports : viewportWidth = v.width /\ viewportHeight = v.height
    /\ scrollRow = 0
    /\ effectPending = TRUE
    /\ pasteBufferRef = <<>>
    /\ pasteCursorRef = Null
    /\ pasteTimeoutRef = NoTimer
    /\ timers = {}
    /\ pasteFragments = <<>>
    /\ nEdits = 0
    /\ nFragments = 0
    /\ nSetText = 0
    /\ nMoves = 0
    /\ mounted = TRUE
    /\ crashed = FALSE
    /\ call = NoCall
    /\ codePointsCache = EmptyMap
    /\ stringWidthCache = EmptyMap

GeomSpec == GeomInit /\ [][ViewNext]_vars

-----------------------------------------------------------------------------
(* wrapLogicalLine and calculateLayout applied to lines and cursors of their own *)

\* the longest logical line wrapLogicalLine is applied to
MaxLineLen == 4

\* the longest logical line of a buffer calculateLayout is applied to
MaxLayoutLen == 3

\* codepoints of width 1, 2 and 0, and the space the wrap breaks at
LayoutAlphabet == {"a", " ", "CJK", "COMB"}

\* the strings of at most n codepoints
StringsUpTo(n) == UNION {[1..k -> LayoutAlphabet] : k \in 0..n}

SixAs == <<"a", "a", "a", "a", "a", "a">>

WrapLines == StringsUpTo(MaxLineLen) \cup {SixAs}

\* viewportWidth: the terminal's columns less the frame, zero and below included
WrapWidths == -1..5

\* a buffer of one line, or of two with the line first or last
LayoutBuffers ==
    UNION {{<<l>>, <<l, <<"a">>>>, <<<<"a", "a", "a", "a">>, l>>} : l \in StringsUpTo(MaxLayoutLen)}

LayoutWidths == 0..4

\* the logical cursors that satisfy the cursor invariant of a buffer
ValidCursors(logicalLines) ==
    {c \in (0..(Len(logicalLines) - 1)) \X (0..MaxLineLen) :
        c[2] <= cpLen(logicalLines[c[1] + 1])}

\* the hook is not running: only `call` changes
LayoutFrame ==
    UNCHANGED <<state, paste, timers, nEdits, nFragments, nSetText, nMoves, mounted,
                crashed, scrollRow, viewportWidth, viewportHeight, effectPending,
                codePointsCache, stringWidthCache>>

LayoutInit ==
    /\ state = setTextState(<<>>)
    /\ pasteBufferRef = <<>>
    /\ pasteCursorRef = Null
    /\ pasteTimeoutRef = NoTimer
    /\ timers = {}
    /\ pasteFragments = <<>>
    /\ nEdits = 0
    /\ nFragments = 0
    /\ nSetText = 0
    /\ nMoves = 0
    /\ mounted = TRUE
    /\ crashed = FALSE
    /\ scrollRow = 0
    /\ \E v \in Viewports : viewportWidth = v.width /\ viewportHeight = v.height
    /\ effectPending = FALSE
    /\ call = NoCall
    /\ codePointsCache = EmptyMap
    /\ stringWidthCache = EmptyMap

\* one application of wrapLogicalLine, from the idle state
WrapCall(logicalLine, width) ==
    /\ call = NoCall
    /\ call' = [op |-> "wrapLogicalLine",
                logicalLine |-> logicalLine,
                viewportWidth |-> width,
                result |-> wrapLogicalLine(logicalLine, width)]
    /\ LayoutFrame

\* one application of calculateLayout, from the idle state
LayoutCall(logicalLines, width, cursorRow, cursorCol) ==
    /\ call = NoCall
    /\ call' = [op |-> "calculateLayout",
                logicalLines |-> logicalLines,
                viewportWidth |-> width,
                cursorRow |-> cursorRow,
                cursorCol |-> cursorCol,
                result |-> calculateLayout(logicalLines, width, cursorRow, cursorCol)]
    /\ LayoutFrame

LayoutNext ==
    \/ \E logicalLine \in WrapLines, width \in WrapWidths : WrapCall(logicalLine, width)
    \/ \E logicalLines \in LayoutBuffers, width \in LayoutWidths :
           \E c \in ValidCursors(logicalLines) : LayoutCall(logicalLines, width, c[1], c[2])

LayoutSpec == LayoutInit /\ [][LayoutNext]_vars

-----------------------------------------------------------------------------
(* wrapLogicalLine, one iteration of its while loop at a time *)

\* the body of the while loop without the branch for end === start
WrapIterationNoForce(cps, start, maxWidth) ==
    LET end == WrapEnd(cps, start, 0, maxWidth)
        lastSpace == findLastSpace(cps, start, end)
    IN  IF end >= Len(cps)
        THEN [segment |-> ArraySliceFrom(cps, start), start |-> start, done |-> TRUE]
        ELSE IF lastSpace >= start
        THEN [segment |-> ArraySlice(cps, start, lastSpace), start |-> lastSpace + 1,
              done |-> FALSE]
        ELSE [segment |-> ArraySlice(cps, start, end), start |-> end, done |-> FALSE]

\* the body of the while loop: the segment pushed, the next start, and whether
\* the loop was left by break
WrapIteration(cps, start, maxWidth) ==
    LET end == WrapEnd(cps, start, 0, maxWidth)
        lastSpace == findLastSpace(cps, start, end)
    IN  IF end >= Len(cps)
        THEN [segment |-> ArraySliceFrom(cps, start), start |-> start, done |-> TRUE]
        ELSE IF end = start
        THEN [segment |-> ArraySlice(cps, start, start + 1), start |-> start + 1,
              done |-> FALSE]
        ELSE IF lastSpace >= start
        THEN [segment |-> ArraySlice(cps, start, lastSpace), start |-> lastSpace + 1,
              done |-> FALSE]
        ELSE [segment |-> ArraySlice(cps, start, end), start |-> end, done |-> FALSE]

\* wrapLogicalLine is entered: an empty line returns at once
WrapEnter(logicalLine, width) ==
    /\ call = NoCall
    /\ call' = [op |-> "wrapLoop",
                logicalLine |-> logicalLine,
                viewportWidth |-> width,
                start |-> 0,
                segments |-> IF Len(logicalLine) = 0 THEN << <<>> >> ELSE <<>>,
                segmentStarts |-> IF Len(logicalLine) = 0 THEN <<0>> ELSE <<>>,
                done |-> Len(logicalLine) = 0]
    /\ LayoutFrame

\* the test of the while loop and, when it passes, one run of its body
WrapLoopStep ==
    /\ call.op = "wrapLoop"
    /\ ~call.done
    /\ LET cps == toCodePoints(call.logicalLine)
           it == WrapIteration(cps, call.start, Max(1, call.viewportWidth))
       IN  IF call.start < Len(cps)
           THEN call' = [call EXCEPT !.segments = Append(@, it.segment),
                                     !.segmentStarts = Append(@, call.start),
                                     !.start = it.start,
                                     !.done = it.done]
           ELSE call' = [call EXCEPT !.done = TRUE]
    /\ LayoutFrame

WrapLoopNext ==
    \/ \E logicalLine \in WrapLines, width \in WrapWidths : WrapEnter(logicalLine, width)
    \/ WrapLoopStep

WrapLoopSpec == LayoutInit /\ [][WrapLoopNext]_vars

-----------------------------------------------------------------------------
(* src-ts/utils/textUtils.ts with its two module-level caches.  The hook's     *)
(* specifications above never call backspaceByGraphemeApprox, the one function *)
(* that writes to an array held by codePointsCache; there toCodePoints is the  *)
(* decomposition of the string.                                                *)

\* the codepoints above U+007F
NonAscii == {"CJK", "COMB", "ZWJ", "EMOJI"}

\* isAscii: no code unit above 127
isAscii(str) == \A i \in 1..Len(str) : str[i] \notin NonAscii

\* /^[\x20-\x7E]*$/.test(str)
IsPrintableAscii(str) ==
    \A i \in 1..Len(str) : str[i] \notin NonAscii \cup {"LF", "CR", "TAB", "BEL"}

\* str.length in UTF-16 code units, for strings of any length
Utf16Length(str) == Len(str) + Cardinality({i \in 1..Len(str) : str[i] = "EMOJI"})

\* Map.prototype.set on a copy of the map
MapSet(map, key, value) ==
    [k \in (DOMAIN map) \cup {key} |-> IF k = key THEN value ELSE map[k]]

\* the sum of charWidth over the elements of an array of codepoints
SumOfWidths(cps) == PrefixWidth(cps, Len(cps))

\* toCodePoints against the cache cpCache: the array returned and the cache left.
\* A cached array is returned itself, not a copy.
toCodePointsWith(cpCache, str) ==
    IF isAscii(str) THEN [result |-> str, codePoints |-> cpCache]
    ELSE IF Utf16Length(str) <= MAX_STRING_LENGTH_TO_CACHE /\ str \in DOMAIN cpCache
    THEN [result |-> cpCache[str], codePoints |-> cpCache]
    ELSE [result |-> str,
          codePoints |-> IF Utf16Length(str) <= MAX_STRING_LENGTH_TO_CACHE
                         THEN MapSet(cpCache, str, str)
                         ELSE cpCache]

\* getCachedStringWidth against the two caches: the width returned and the caches left
getCachedStringWidthWith(cpCache, widthCache, str) ==
    IF IsPrintableAscii(str)
    THEN [result |-> Utf16Length(str), codePoints |-> cpCache, widths |-> widthCache]
    ELSE IF str \in DOMAIN widthCache
    THEN [result |-> widthCache[str], codePoints |-> cpCache, widths |-> widthCache]
    ELSE LET cps == toCodePointsWith(cpCache, str)
             width == SumOfWidths(cps.result)
         IN  [result |-> width,
              codePoints |-> cps.codePoints,
              widths |-> MapSet(widthCache, str, width)]

RECURSIVE TruncateLoop(_, _, _, _, _)
\* the loop of truncateToWidth at codepoint i (1-based) with `out` and `width` so far
TruncateLoop(cps, i, out, width, maxWidth) ==
    IF i > Len(cps) THEN out
    ELSE LET ch == cps[i]
             cw == charWidth(ch)
         IN  IF cw <= 0 THEN TruncateLoop(cps, i + 1, Append(out, ch), width, maxWidth)
             ELSE IF width + cw > maxWidth THEN out
             ELSE IF width + cw = maxWidth THEN Append(out, ch)
             ELSE TruncateLoop(cps, i + 1, Append(out, ch), width + cw, maxWidth)

truncateToWidthWith(cpCache, widthCache, str, maxWidth) ==
    IF maxWidth <= 0 THEN [result |-> <<>>, codePoints |-> cpCache, widths |-> widthCache]
    ELSE LET w == getCachedStringWidthWith(cpCache, widthCache, str)
             cps == toCodePointsWith(w.codePoints, str)
         IN  IF w.result <= maxWidth
             THEN [result |-> str, codePoints |-> w.codePoints, widths |-> w.widths]
             ELSE [result |-> TruncateLoop(cps.result, 1, <<>>, 0, maxWidth),
                   codePoints |-> cps.codePoints,
                   widths |-> w.widths]

\* ' '.repeat(n)
Spaces(n) == [i \in 1..n |-> " "]

padRightToWidthWith(cpCache, widthCache, str, targetWidth) ==
    LET w == getCachedStringWidthWith(cpCache, widthCache, str)
    IN  [result |-> IF w.result >= targetWidth THEN str
                    ELSE str \o Spaces(targetWidth - w.result),
         codePoints |-> w.codePoints,
         widths |-> w.widths]

padLeftToWidthWith(cpCache, widthCache, str, targetWidth) ==
    LET w == getCachedStringWidthWith(cpCache, widthCache, str)
    IN  [result |-> IF w.result >= targetWidth THEN str
                    ELSE Spaces(targetWidth - w.result) \o str,
         codePoints |-> w.codePoints,
         widths |-> w.widths]

RECURSIVE PopLoop(_, _)
\* the while loop of backspaceByGraphemeApprox: what is left of the array
PopLoop(cps, removedZw) ==
    IF Len(cps) = 0 THEN cps
    ELSE LET last == cps[Len(cps)]
             rest == SubSeq(cps, 1, Len(cps) - 1)
         IN  IF IsZeroWidth(last) THEN PopLoop(rest, removedZw \/ last = "ZWJ")
             ELSE IF removedZw THEN PopLoop(rest, FALSE)
             ELSE cps

\* backspaceByGraphemeApprox pops from the array toCodePoints returned: when that
\* array is the one codePointsCache holds, the cache entry shrinks with it
backspaceByGraphemeApproxWith(cpCache, str) ==
    LET got == toCodePointsWith(cpCache, str)
        cps == got.result
        left == PopLoop(SubSeq(cps, 1, Len(cps) - 1), cps[Len(cps)] = "ZWJ")
        shared == ~isAscii(str) /\ Utf16Length(str) <= MAX_STRING_LENGTH_TO_CACHE
    IN  IF Len(cps) = 0 THEN [result |-> str, codePoints |-> got.codePoints]
        ELSE [result |-> left,
              codePoints |-> IF shared THEN MapSet(got.codePoints, str, left)
                             ELSE got.codePoints]

\* "abc", "你好", a lone combining mark, two emoji joined by U+200D
Abc == <<"a", "b", "c">>
Hello == <<"CJK", "CJK">>
Mark == <<"COMB">>
Family == <<"EMOJI", "ZWJ", "EMOJI">>

\* a non-ASCII string one code unit longer than MAX_STRING_LENGTH_TO_CACHE
LongString == [i \in 1..(MAX_STRING_LENGTH_TO_CACHE + 1) |-> IF i = 1 THEN "CJK" ELSE "a"]

\* the strings the utilities are called with
TextStrings == {Abc, Hello, Mark, Family}

\* the largest maxWidth and targetWidth of a call
MaxTextWidth == 4

\* the number of calls of the utilities in a run
MaxCalls == 3

\* maxWidth of truncateToWidth, targetWidth of the pads
TextWidths == -1..MaxTextWidth

\* the hook is not running: only `call` and the caches change
TextFrame ==
    UNCHANGED <<state, paste, timers, nEdits, nFragments, nSetText, nMoves, mounted,
                crashed, scrollRow, viewportWidth, viewportHeight, effectPending>>

\* a call that returns `r` and leaves the caches of `r` (or the caches as they
\* are, where `r` has none)
Returns(op, str, arg, r) ==
    /\ call.n < MaxCalls
    /\ call' = [op |-> op, str |-> str, arg |-> arg, result |-> r.result, n |-> call.n + 1]
    /\ codePointsCache' = r.codePoints
    /\ stringWidthCache' = r.widths
    /\ TextFrame

ToCodePointsCall(str) ==
    LET r == toCodePointsWith(codePointsCache, str)
    IN  Returns("toCodePoints", str, 0,
                [result |-> r.result, codePoints |-> r.codePoints, widths |-> stringWidthCache])

WidthCall(str) ==
    Returns("getCachedStringWidth", str, 0,
            getCachedStringWidthWith(codePointsCache, stringWidthCache, str))

TruncateCall(str, maxWidth) ==
    Returns("truncateToWidth", str, maxWidth,
            truncateToWidthWith(codePointsCache, stringWidthCache, str, maxWidth))

PadRightCall(str, targetWidth) ==
    Returns("padRightToWidth", str, targetWidth,
            padRightToWidthWith(codePointsCache, stringWidthCache, str, targetWidth))

PadLeftCall(str, targetWidth) ==
    Returns("padLeftToWidth", str, targetWidth,
            padLeftToWidthWith(codePointsCache, stringWidthCache, str, targetWidth))

BackspaceCall(str) ==
    LET r == backspaceByGraphemeApproxWith(codePointsCache, str)
    IN  Returns("backspaceByGraphemeApprox", str, 0,
                [result |-> r.result, codePoints |-> r.codePoints, widths |-> stringWidthCache])

\* clearStringWidthCache
ClearWidthsCall ==
    Returns("clearStringWidthCache", <<>>, 0,
            [result |-> 0, codePoints |-> codePointsCache, widths |-> EmptyMap])

TextNext ==
    \/ \E str \in TextStrings \cup {LongString} : ToCodePointsCall(str)
    \/ \E str \in TextStrings \cup {LongString} : WidthCall(str)
    \/ \E str \in TextStrings, maxWidth \in TextWidths : TruncateCall(str, maxWidth)
    \/ \E str \in TextStrings, targetWidth \in TextWidths : PadRightCall(str, targetWidth)
    \/ \E str \in TextStrings, targetWidth \in TextWidths : PadLeftCall(str, targetWidth)
    \/ \E str \in TextStrings \cup {LongString} : BackspaceCall(str)
    \/ ClearWidthsCall

\* the module is loaded: both caches are empty and nothing has been called
TextInit ==
    /\ state = setTextState(<<>>)
    /\ pasteBufferRef = <<>>
    /\ pasteCursorRef = Null
    /\ pasteTimeoutRef = NoTimer
    /\ timers = {}
    /\ pasteFragments = <<>>
    /\ nEdits = 0
    /\ nFragments = 0
    /\ nSetText = 0
    /\ nMoves = 0
    /\ mounted = TRUE
    /\ crashed = FALSE
    /\ scrollRow = 0
    /\ \E v \in Viewports : viewportWidth = v.width /\ viewportHeight = v.height
    /\ effectPending = FALSE
    /\ call = [op |-> "none", n |-> 0]
    /\ codePointsCache = EmptyMap
    /\ stringWidthCache = EmptyMap

TextSpec == TextInit /\ [][TextNext]_vars

-----------------------------------------------------------------------------
(* Properties *)

Blocks == {state.collapsedBlocks[i] : i \in 1..Len(state.collapsedBlocks)}

CursorLine == LineAt(state.lines, state.cursorRow)

\* C1: in every reachable state the text expandAllBlocks() returns (the text
\* handed to onSubmit) contains no placeholder of a registered block that is
\* not expanded, wherever the cursor is and however many blocks exist.
C1_ExpandedTextHasNoPlaceholder ==
    (~crashed /\ ~expandAllBlocksThrows(state)) =>
        \A b \in Blocks :
            ~b.isExpanded => ~Includes(getExpandedText(state), b.placeholder)

\* C2: the cursor invariant holds in every reachable state:
\* 0 <= cursorRow < lines.length and 0 <= cursorCol <= cpLen(lines[cursorRow]).
C2_CursorInvariant ==
    ~crashed =>
        /\ state.cursorRow >= 0
        /\ state.cursorRow < Len(state.lines)
        /\ state.cursorCol >= 0
        /\ state.cursorCol <= cpLen(CursorLine)

\* C3: every registered block that is not expanded has its placeholder on the
\* logical line at its recorded startLine, and on no other line.
C3_PlaceholderAtStartLine ==
    ~crashed =>
        \A b \in Blocks :
            ~b.isExpanded =>
                \A r \in 0..(Len(state.lines) - 1) :
                    Includes(LineAt(state.lines, r), b.placeholder) <=> r = b.startLine

\* in snapshot s the cursor is on the line of collapsed block b, strictly between
\* the codepoint offsets p and p + length of an occurrence of its placeholder
StrictlyInsideIn(s, b) ==
    /\ ~b.isExpanded
    /\ b.startLine = s.cursorRow
    /\ \E p \in Occurrences(LineAt(s.lines, s.cursorRow), b.placeholder) :
           p < s.cursorCol /\ s.cursorCol < p + Len(b.placeholder)

StrictlyInside(b) == StrictlyInsideIn(state, b)

\* C4: with the cursor strictly inside the placeholder of any collapsed block
\* (also a second block on the same line), insert, backspace and delete leave
\* the whole buffer state unchanged.
C4_EditInsidePlaceholderRejected ==
    ~crashed =>
        \A b \in Blocks :
            StrictlyInside(b) =>
                /\ \A seq \in TypedSeqs : applyInsert(state, seq) = state
                /\ applyBackspace(state) = state
                /\ applyDelete(state) = state

\* the state after the atomic removal of block b, whose placeholder occupies
\* the codepoints [p, p + length) of the cursor line
BlockRemoved(b, p) ==
    [state EXCEPT
        !.lines = [state.lines EXCEPT ![state.cursorRow + 1] =
                       SubSeq(CursorLine, 1, p)
                       \o SubSeq(CursorLine, p + Len(b.placeholder) + 1, Len(CursorLine))],
        !.collapsedBlocks = SelectSeq(state.collapsedBlocks, LAMBDA x : x.id # b.id),
        !.cursorCol = p]

\* C5: backspace with the cursor at the end of a collapsed block's placeholder,
\* and delete with the cursor at its start, remove the whole placeholder and
\* the block and leave the cursor at the placeholder's start codepoint offset,
\* whichever collapsed block's boundary the cursor is on.
C5_BoundaryDeleteRemovesBlock ==
    ~crashed =>
        \A b \in Blocks :
            (~b.isExpanded /\ b.startLine = state.cursorRow) =>
                \A p \in Occurrences(CursorLine, b.placeholder) :
                    /\ state.cursorCol = p + Len(b.placeholder)
                           => applyBackspace(state) = BlockRemoved(b, p)
                    /\ state.cursorCol = p
                           => applyDelete(state) = BlockRemoved(b, p)

\* the timeout callback applies its insert in this step
PasteApplied == mounted /\ pasteBufferRef # <<>> /\ pasteBufferRef' = <<>>

\* the snapshot the timeout callback inserts into: the cursor is the anchor
AnchorState ==
    [state EXCEPT !.cursorRow = pasteCursorRef.row, !.cursorCol = pasteCursorRef.col]

\* the block an oversized insert of insertLines at the cursor of snapshot s registers
NewBlock(s, insertLines) ==
    [id |-> s.nextBlockId,
     startLine |-> s.cursorRow,
     lineCount |-> Len(insertLines),
     content |-> insertLines,
     isExpanded |-> FALSE,
     placeholder |-> Placeholder(s.nextBlockId, Len(insertLines))]

\* the captured cursor is strictly inside the placeholder of a collapsed block
AnchorInsidePlaceholder == \E b \in Blocks : StrictlyInsideIn(AnchorState, b)

\* C6: an insert of more than 5 lines (with the cursor not strictly inside a
\* placeholder, where C4 has it rejected) keeps the number of logical lines, splices the placeholder into the cursor line at the cursor, appends
\* exactly one block {startLine = cursorRow, lineCount = M, content, not
\* expanded} and leaves the cursor right after the placeholder; an insert of
\* 5 lines or fewer creates no block.
C6_OversizedInsertCollapses ==
    [][(PasteApplied /\ ~AnchorInsidePlaceholder) =>
        LET s == AnchorState
            line == LineAt(s.lines, s.cursorRow)
            before == cpSlice(line, 0, s.cursorCol)
            after == cpSliceFrom(line, s.cursorCol)
            block == NewBlock(s, pasteBufferRef)
        IN  IF Len(pasteBufferRef) > COLLAPSE_THRESHOLD
            THEN /\ Len(state'.lines) = Len(state.lines)
                 /\ state'.lines = [state.lines EXCEPT ![s.cursorRow + 1] =
                                        before \o block.placeholder \o after]
                 /\ state'.collapsedBlocks = Append(state.collapsedBlocks, block)
                 /\ state'.nextBlockId = state.nextBlockId + 1
                 /\ state'.cursorRow = s.cursorRow
                 /\ state'.cursorCol = cpLen(before \o block.placeholder)
            ELSE state'.collapsedBlocks = state.collapsedBlocks]_vars

RECURSIVE ConcatParts(_)
\* the lines of the fragments, fragment after fragment
ConcatParts(frags) ==
    IF frags = <<>> THEN <<>>
    ELSE SplitLF(normalizeText(Head(frags))) \o ConcatParts(Tail(frags))

RECURSIVE ConcatText(_)
\* the texts of the fragments, concatenated in arrival order
ConcatText(frags) ==
    IF frags = <<>> THEN <<>> ELSE Head(frags) \o ConcatText(Tail(frags))

\* the parts of C7 that do not depend on the outcome of the insert: a fragment
\* changes no line; the accumulation holds the lines of all fragments since the
\* anchor; the insert happens when the timeout of the last fragment is due, it
\* is the only pending timeout, and it empties the accumulation and the anchor
C7_Coalescing ==
    /\ nFragments' = nFragments + 1 => state' = state
    /\ pasteBufferRef = ConcatParts(pasteFragments)
    /\ (pasteBufferRef = <<>>) = (pasteCursorRef = Null)
    /\ PasteApplied =>
           /\ timers = {[id |-> nFragments, due |-> 0]}
           /\ timers' = {}
           /\ pasteCursorRef' = Null
           /\ state' = applyInsert(AnchorState, JoinLF(pasteBufferRef))

\* C7: fragments that arrive with the cursor at the anchor are coalesced, no
\* insert happens while they keep arriving, one insert is applied at the
\* captured cursor 150 ms after the last fragment, the accumulation and the
\* anchor are then empty, and more than 5 accumulated lines give exactly one
\* collapsed block (unless the captured cursor is strictly inside a
\* placeholder, where C4 has the insert rejected).
C7_CoalescedPasteGivesOneBlock ==
    [][/\ C7_Coalescing
       /\ (PasteApplied /\ Len(pasteBufferRef) > COLLAPSE_THRESHOLD
              /\ ~AnchorInsidePlaceholder) =>
              state'.collapsedBlocks =
                  Append(state.collapsedBlocks, NewBlock(AnchorState, pasteBufferRef))]_vars

\* C8: the text inserted when the debounce fires is the concatenation of the
\* texts of the coalesced fragments, nothing added between fragments.
C8_InsertedTextIsConcatenation ==
    [][PasteApplied =>
        state' = applyInsert(AnchorState, ConcatText(pasteFragments))]_vars

\* C9: edits take effect in arrival order: while a paste fragment is waiting to
\* be applied, no later event changes the lines before the fragment is applied.
C9_ArrivalOrder ==
    [][(pasteBufferRef # <<>> /\ state'.lines # state.lines) => PasteApplied]_vars

\* C10: once the hook is unmounted no timeout is pending and the buffer state
\* never changes: the accumulated paste is never inserted.
C10_NoMutationAfterTeardown ==
    [][~mounted' =>
        /\ timers' = {}
        /\ ~mounted => (state' = state /\ pasteBufferRef' = pasteBufferRef)]_vars

\* C10 witness: the hook was unmounted while a paste was waiting for its timeout
C10_Witness == ~mounted /\ ~crashed /\ pasteBufferRef # <<>> /\ timers = {}

-----------------------------------------------------------------------------
\* C11: at every moment at most one debounce timeout is pending, and a
\* multi-line fragment leaves exactly the timeout it schedules pending: the
\* one scheduled before it is cancelled.
C11_AtMostOneTimerPending ==
    /\ [](Cardinality(timers) <= 1)
    /\ [][nFragments' # nFragments =>
             timers' = {[id |-> nFragments', due |-> DEBOUNCE_MS]}]_vars

\* C11 witness: a second fragment was coalesced while the timeout of the first
\* was pending, and only its own timeout is pending
C11_Witness ==
    /\ Len(pasteFragments) = 2
    /\ timers = {[id |-> 2, due |-> DEBOUNCE_MS]}

-----------------------------------------------------------------------------
\* the scroll bound of C12 in the current state
ScrollBound ==
    /\ 0 <= scrollRow
    /\ scrollRow <= Max(0, Len(Layout.visualLines) - viewportHeight)
    /\ scrollRow <= Layout.cursor.row
    /\ Layout.cursor.row < scrollRow + viewportHeight

\* C12: for viewportHeight >= 1, one run of the scroll effect after a transition
\* settles scrollRow (a second run sets nothing), and once it is settled
\* 0 <= scrollRow <= max(0, totalVisualLines - viewportHeight) and the visual
\* row of the cursor lies in [scrollRow, scrollRow + viewportHeight).
C12_ScrollBoundOnceSettled ==
    (~crashed /\ viewportHeight >= 1) =>
        /\ ScrollEffect(Layout.cursor.row, Len(Layout.visualLines), viewportHeight,
                        NextScroll) = NextScroll
        /\ ~effectPending => ScrollBound

\* C12 witness: the viewport is scrolled as far down as it goes, with the
\* cursor on its first row
C12_Witness ==
    /\ ~crashed
    /\ ~effectPending
    /\ viewportHeight > 1
    /\ scrollRow > 0
    /\ scrollRow = Len(Layout.visualLines) - viewportHeight
    /\ Layout.cursor.row = scrollRow

-----------------------------------------------------------------------------
\* the collapsed blocks whose placeholder is on the cursor line of snapshot s
CollapsedOnCursorLine(s) ==
    {i \in 1..Len(s.collapsedBlocks) :
        /\ ~s.collapsedBlocks[i].isExpanded
        /\ Includes(LineAt(s.lines, s.cursorRow), s.collapsedBlocks[i].placeholder)}

\* the lines of s with block b expanded where its placeholder occupies the
\* codepoints [p, p + length) of the cursor line
ExpandedLines(s, b, p) ==
    LET line == LineAt(s.lines, s.cursorRow)
        before == SubSeq(line, 1, p)
        after == SubSeq(line, p + Len(b.placeholder) + 1, Len(line))
        n == Len(b.content)
        expanded == [i \in 1..n |->
                        (IF i = 1 THEN before ELSE <<>>)
                        \o b.content[i]
                        \o (IF i = n THEN after ELSE <<>>)]
    IN  SubSeq(s.lines, 1, s.cursorRow) \o expanded
        \o SubSeq(s.lines, s.cursorRow + 2, Len(s.lines))

\* C13: toggling with the cursor on the line of a collapsed block replaces that
\* line by the block's lineCount content lines (the first prefixed by the text
\* before the placeholder, the last followed by the text after it), leaves the
\* other lines alone and keeps the block registered with isExpanded = TRUE and
\* startLine = the cursor row.
C13_ToggleExpandsCollapsedBlock ==
    (~crashed /\ state.cursorRow \in 0..(Len(state.lines) - 1)
        /\ CollapsedOnCursorLine(state) # {}) =>
        \E i \in CollapsedOnCursorLine(state) :
            LET b == state.collapsedBlocks[i]
                next == toggleBlockAtCursor(state)
            IN  /\ \E q \in Occurrences(LineAt(state.lines, state.cursorRow), b.placeholder) :
                       next.lines = ExpandedLines(state, b, q)
                /\ next.collapsedBlocks =
                       [state.collapsedBlocks EXCEPT
                           ![i] = [b EXCEPT !.isExpanded = TRUE,
                                            !.startLine = state.cursorRow]]
                /\ next.nextBlockId = state.nextBlockId

-----------------------------------------------------------------------------
\* block b of snapshot s is expanded and the lines [startLine, startLine +
\* lineCount) hold its content between the text `before` and the text `after`
ExpandedAs(s, b, before, after) ==
    /\ b.isExpanded
    /\ b.startLine + b.lineCount <= Len(s.lines)
    /\ \A k \in 1..b.lineCount :
           s.lines[b.startLine + k] =
               (IF k = 1 THEN before ELSE <<>>) \o b.content[k]
               \o (IF k = b.lineCount THEN after ELSE <<>>)

\* the lines of s with the expanded block b collapsed again
CollapsedLines(s, b, before, after) ==
    SubSeq(s.lines, 1, b.startLine)
    \o << before \o b.placeholder \o after >>
    \o SubSeq(s.lines, b.startLine + b.lineCount + 1, Len(s.lines))

\* C14: with a block expanded and the cursor on the block's first line, a
\* toggle replaces the lines [startLine, startLine + lineCount) by one line
\* made of the preceding context, the placeholder and the following context,
\* and sets isExpanded to FALSE.
C14_ToggleCollapsesExpandedBlock ==
    ~crashed =>
        \A i \in 1..Len(state.collapsedBlocks) :
            LET b == state.collapsedBlocks[i]
                first == LineAt(state.lines, b.startLine)
                last == LineAt(state.lines, b.startLine + b.lineCount - 1)
                before == SubSeq(first, 1, Len(first) - Len(b.content[1]))
                after == SubSeq(last, Len(b.content[b.lineCount]) + 1, Len(last))
                next == toggleBlockAtCursor(state)
            IN  (/\ state.cursorRow = b.startLine
                 /\ b.isExpanded
                 /\ b.startLine + b.lineCount <= Len(state.lines)
                 /\ Len(first) >= Len(b.content[1])
                 /\ ExpandedAs(state, b, before, after)) =>
                    /\ next.lines = CollapsedLines(state, b, before, after)
                    /\ ~next.collapsedBlocks[i].isExpanded

-----------------------------------------------------------------------------
\* C15: with nothing edited in between, expanding a collapsed block and then
\* collapsing it gives back the lines and the registry it started from, and so
\* does collapsing an expanded block and then expanding it.
C15_CollapseExpandInverse ==
    ~crashed =>
        \A i \in 1..Len(state.collapsedBlocks) :
            LET b == state.collapsedBlocks[i]
                first == LineAt(state.lines, b.startLine)
                last == LineAt(state.lines, b.startLine + b.lineCount - 1)
                before == SubSeq(first, 1, Len(first) - Len(b.content[1]))
                after == SubSeq(last, Len(b.content[b.lineCount]) + 1, Len(last))
                expanded == expandBlock(state, b)
                collapsed == collapseBlock(state, b)
                there == collapseBlock(expanded, expanded.collapsedBlocks[i])
                back == expandBlock(collapsed, collapsed.collapsedBlocks[i])
            IN  /\ (/\ ~b.isExpanded
                     /\ b.startLine = state.cursorRow
                     /\ Includes(LineAt(state.lines, state.cursorRow), b.placeholder)) =>
                        /\ there.lines = state.lines
                        /\ there.collapsedBlocks = state.collapsedBlocks
                /\ (/\ b.isExpanded
                     /\ b.startLine + b.lineCount <= Len(state.lines)
                     /\ Len(first) >= Len(b.content[1])
                     /\ ExpandedAs(state, b, before, after)) =>
                        /\ back.lines = state.lines
                        /\ back.collapsedBlocks = state.collapsedBlocks

-----------------------------------------------------------------------------
\* the ids of the registered blocks, in registry order
IdSeq(s) == [i \in 1..Len(s.collapsedBlocks) |-> s.collapsedBlocks[i].id]

\* the sequence q without its i-th element
WithoutIndex(q, i) == SubSeq(q, 1, i - 1) \o SubSeq(q, i + 1, Len(q))

\* r is s after a backspace or delete that took more than one codepoint out of
\* the cursor line: the atomic deletion of a placeholder
AtomicDeletion(s, r) ==
    /\ Len(r.lines) = Len(s.lines)
    /\ cpLen(LineAt(r.lines, s.cursorRow)) < cpLen(LineAt(s.lines, s.cursorRow)) - 1

\* r is s after backspace or delete: an atomic deletion removes exactly one
\* block, a collapsed one of the cursor line; any other outcome removes none
DeletionKeepsOthers(s, r) ==
    IF AtomicDeletion(s, r)
    THEN \E i \in 1..Len(s.collapsedBlocks) :
             /\ r.collapsedBlocks = WithoutIndex(s.collapsedBlocks, i)
             /\ ~s.collapsedBlocks[i].isExpanded
             /\ s.collapsedBlocks[i].startLine = s.cursorRow
             /\ Includes(LineAt(s.lines, s.cursorRow), s.collapsedBlocks[i].placeholder)
    ELSE IdSeq(r) = IdSeq(s)

\* what a step of the hook does to the membership of the registry
RegistryStep ==
    /\ PasteApplied =>
          \/ IdSeq(state') = IdSeq(state)
          \/ /\ Len(pasteBufferRef) > COLLAPSE_THRESHOLD
             /\ IdSeq(state') = Append(IdSeq(state), state.nextBlockId)
    /\ nSetText' # nSetText =>
          \/ IdSeq(state') = <<>>
          \/ crashed' /\ state' = state
    /\ nMoves' # nMoves => IdSeq(state') = IdSeq(state)
    /\ nEdits' # nEdits =>
          \/ IdSeq(state') = IdSeq(state)
          \/ \E i \in 1..Len(state.collapsedBlocks) :
                 state'.collapsedBlocks = WithoutIndex(state.collapsedBlocks, i)
    /\ (UNCHANGED <<nEdits, nFragments, nSetText, nMoves, pasteBufferRef>>) =>
          IdSeq(state') = IdSeq(state)

\* C16: the membership of the block registry changes in three ways only: the
\* insert of more than COLLAPSE_THRESHOLD lines appends one block, an atomic
\* deletion removes exactly the block deleted, setText empties the registry;
\* cursor moves, inserts of up to COLLAPSE_THRESHOLD lines, ordinary backspace
\* and delete, and toggles leave it as it is.
C16_RegistryMembership ==
    /\ [](~crashed =>
            /\ \A d \in {<<0, -1>>, <<0, 1>>, <<-1, 0>>, <<1, 0>>} :
                   IdSeq(moveCursor(state, d[1], d[2])) = IdSeq(state)
            /\ \A seq \in TypedSeqs \cup {<<"TAB">>, <<"LF">>} :
                   IdSeq(applyInsert(state, seq)) = IdSeq(state)
            /\ IdSeq(toggleBlockAtCursor(state)) = IdSeq(state)
            /\ DeletionKeepsOthers(state, applyBackspace(state))
            /\ DeletionKeepsOthers(state, applyDelete(state)))
    /\ [][RegistryStep]_vars

\* one block was registered and an atomic deletion has removed it again
C16_Witness ==
    /\ ~crashed
    /\ nEdits = 1
    /\ nSetText = 0
    /\ state.nextBlockId = 2
    /\ state.collapsedBlocks = <<>>

-----------------------------------------------------------------------------
\* C17: block ids come from a monotonic counter: the ids and the placeholders
\* of the registered blocks are pairwise distinct, every registered id is
\* smaller than nextBlockId, and nextBlockId never decreases in a step that is
\* not a setText, so the number of a deleted block is not handed out again.
C17_MonotonicBlockIds ==
    /\ [](~crashed =>
            /\ \A i, j \in 1..Len(state.collapsedBlocks) :
                   i # j => /\ state.collapsedBlocks[i].id # state.collapsedBlocks[j].id
                            /\ state.collapsedBlocks[i].placeholder
                                   # state.collapsedBlocks[j].placeholder
            /\ \A b \in Blocks : b.id >= 1 /\ b.id < state.nextBlockId)
    /\ [][nSetText' = nSetText => state'.nextBlockId >= state.nextBlockId]_vars

\* block 1 was deleted, and the block registered after it has the number 2
C17_Witness ==
    /\ ~crashed
    /\ nSetText = 0
    /\ Len(state.collapsedBlocks) = 1
    /\ state.collapsedBlocks[1].id = 2
    /\ state.nextBlockId = 3

-----------------------------------------------------------------------------
\* the state setText(text) leaves, whatever the state before
ReplacedBy(text, s, scroll) ==
    LET lines == s.lines
        lastLine == lines[Len(lines)]
    IN  /\ Len(lines) >= 1
        /\ \A r \in 1..Len(lines) : \A k \in 1..Len(lines[r]) : lines[r][k] \notin {"LF", "CR"}
        /\ JoinLF(lines) = normalizeText(text)
        /\ s.cursorRow = Len(lines) - 1
        /\ s.cursorCol = Len(lastLine)
        /\ s.collapsedBlocks = <<>>
        /\ s.nextBlockId = 1
        /\ scroll = 0

-----------------------------------------------------------------------------
C20_CursorMappingInjective ==
    call.op = "calculateLayout" =>
        \A c \in ValidCursors(call.logicalLines) :
            c # <<call.cursorRow, call.cursorCol>> =>
                calculateLayout(call.logicalLines, call.viewportWidth, c[1], c[2]).cursor
                    # call.result.cursor

-----------------------------------------------------------------------------
\* the exported lines are viewportHeight entries: the visual lines from
\* scrollRow on, then empty strings
ExactlyViewportHeightLines ==
    /\ Len(ViewportVisualLines) = viewportHeight
    /\ \A i \in 1..viewportHeight :
           ViewportVisualLines[i] =
               IF scrollRow + i <= Len(Layout.visualLines)
               THEN Layout.visualLines[scrollRow + i]
               ELSE <<>>

\* the exported cursor row is a row of the viewport, and the row of the layout
\* cursor in it once the scroll effect has settled
CursorRowInViewport ==
    /\ VisualCursor.row \in 0..(viewportHeight - 1)
    /\ ~effectPending => VisualCursor.row = Layout.cursor.row - scrollRow

\* C21 as stated: for viewportHeight >= 0 viewportVisualLines has exactly
\* viewportHeight entries, the visual lines from scrollRow on padded with empty
\* strings, and the visualCursor row is in [0, viewportHeight - 1] and equals
\* the layout cursor row minus scrollRow once scrolling has settled.
C21_ViewportExports ==
    (~crashed /\ viewportHeight >= 0) =>
        ExactlyViewportHeightLines /\ CursorRowInViewport

\* C21 amended: the statement about the cursor row is for viewportHeight >= 1;
\* a viewport of height 0 has no row, and the exported row is then -1 or 0.
C21_ViewportExportsWithRows ==
    (~crashed /\ viewportHeight >= 0) =>
        /\ ExactlyViewportHeightLines
        /\ viewportHeight >= 1 => CursorRowInViewport
        /\ viewportHeight = 0 => VisualCursor.row \in {-1, 0}

\* a render whose scrollRow is stale: fewer visual lines than the viewport
\* remain from scrollRow on, and the export is padded
C21_Witness ==
    /\ ~crashed
    /\ viewportHeight >= 1
    /\ scrollRow > 0
    /\ scrollRow + viewportHeight > Len(Layout.visualLines)
    /\ ViewportVisualLines[viewportHeight] = <<>>

-----------------------------------------------------------------------------
RECURSIVE ScrollSettlesWithin(_, _, _, _, _)
\* the scroll effect, run again after each scrollRow it sets, sets none after at
\* most `runs` further runs
ScrollSettlesWithin(cursorRow, visualLineCount, height, scroll, runs) ==
    LET nextScroll == ScrollEffect(cursorRow, visualLineCount, height, scroll)
    IN  IF nextScroll = scroll THEN TRUE
        ELSE IF runs = 0 THEN FALSE
        ELSE ScrollSettlesWithin(cursorRow, visualLineCount, height, nextScroll, runs - 1)

\* C22: for every viewportHeight, zero and negative included, the scroll
\* effect that is due after a transition stops setting scrollRow after finitely
\* many runs (every run leaves scrollRow in 0..maxScroll, so if it has not stopped
\* after maxScroll + 2 runs it repeats a value and never stops); and for
\* viewportWidth <= 0 the layout is the one for width 1.
C22_InvalidGeometryAbsorbed ==
    ~crashed =>
        LET layout == Layout
            maxScroll == Max(0, Len(layout.visualLines) - viewportHeight)
        IN  /\ viewportWidth <= 0 =>
                   layout = calculateLayout(state.lines, 1, state.cursorRow, state.cursorCol)
            /\ ScrollSettlesWithin(layout.cursor.row, Len(layout.visualLines),
                                   viewportHeight, scrollRow, maxScroll + 2)

-----------------------------------------------------------------------------
\* the lines [startLine, startLine + lineCount) of snapshot s reproduce the
\* content of block b: the first after some text, the last before some text
BackedByBuffer(s, b) ==
    LET first == LineAt(s.lines, b.startLine)
        last == LineAt(s.lines, b.startLine + b.lineCount - 1)
    IN  /\ b.startLine >= 0
        /\ b.startLine + b.lineCount <= Len(s.lines)
        /\ Len(first) >= Len(b.content[1])
        /\ Len(last) >= Len(b.content[b.lineCount])
        /\ ExpandedAs(s, b,
                      SubSeq(first, 1, Len(first) - Len(b.content[1])),
                      SubSeq(last, Len(b.content[b.lineCount]) + 1, Len(last)))

\* C23: in every reachable state each registered block with isExpanded = TRUE
\* is backed by the buffer: the lineCount logical lines from its startLine
\* reproduce its content, the first prefixed and the last suffixed by context,
\* also after further edits and after other blocks are expanded.
C23_ExpandedBlockBackedByBuffer ==
    ~crashed => \A b \in Blocks : b.isExpanded => BackedByBuffer(state, b)

-----------------------------------------------------------------------------
\* snapshot m is snapshot s with only the cursor moved by (deltaRow, deltaCol),
\* each coordinate brought back into its range
MovedBy(s, m, deltaRow, deltaCol) ==
    LET row == Max(0, Min(s.cursorRow + deltaRow, Len(s.lines) - 1))
        col == Max(0, Min(s.cursorCol + deltaCol, Len(LineAt(s.lines, row))))
    IN  m = [s EXCEPT !.cursorRow = row, !.cursorCol = col]

\* the deltas of moveCursor: the arrow keys use -1 and 1
MoveDeltas == -2..2

-----------------------------------------------------------------------------
\* C25: getCachedStringWidth(s) is the sum of the widths of the codepoints of
\* s (0 for combining marks and the zero-width joiner, 2 for wide codepoints, 1
\* otherwise), from the cache or not: s.length for an ASCII string, 4 for "你好".
C25_WidthIsSumOfCodepointWidths ==
    call.op = "getCachedStringWidth" =>
        /\ call.result = SumOfWidths(call.str)
        /\ isAscii(call.str) => call.result = Utf16Length(call.str)
        /\ call.str = Hello => call.result = 4

\* C26: stringWidthCache never holds an entry for a string longer than
\* MAX_STRING_LENGTH_TO_CACHE: the width of a longer non-ASCII string is
\* computed without an entry being added.
C26_WidthCacheBounded ==
    \A str \in DOMAIN stringWidthCache : Utf16Length(str) <= MAX_STRING_LENGTH_TO_CACHE

\* p is a codepoint prefix of str
IsPrefix(p, str) == Len(p) <= Len(str) /\ p = SubSeq(str, 1, Len(p))

\* C27: truncateToWidth(str, maxWidth) is a codepoint prefix of str of display
\* width <= max(0, maxWidth), and str itself when str already fits.
C27_TruncateIsFittingPrefix ==
    call.op = "truncateToWidth" =>
        /\ IsPrefix(call.result, call.str)
        /\ SumOfWidths(call.result) <= Max(0, call.arg)
        /\ SumOfWidths(call.str) <= call.arg => call.result = call.str

\* C28: padLeftToWidth and padRightToWidth return a string of display width
\* exactly targetWidth when the input is not wider than targetWidth, adding
\* only spaces on the left, respectively the right, and the input unchanged
\* when it is wider.
C28_PadToExactWidth ==
    call.op \in {"padLeftToWidth", "padRightToWidth"} =>
        LET width == SumOfWidths(call.str)
            padding == Spaces(call.arg - width)
        IN  IF width <= call.arg
            THEN /\ SumOfWidths(call.result) = call.arg
                 /\ call.result = IF call.op = "padLeftToWidth"
                                  THEN padding \o call.str
                                  ELSE call.str \o padding
            ELSE call.result = call.str

-----------------------------------------------------------------------------
\* inserted texts of one to five lines, already normalized
InsertTexts ==
    { <<"x">>,
      <<"CJK", "CJK">>,
      <<"a", "LF", "EMOJI">>,
      <<"a", "LF", "LF", "b", "LF", "LF", "c">> }

\* the number of line feeds of a text
LineFeeds(text) == Cardinality({i \in 1..Len(text) : text[i] = "LF"})

\* the cursor is strictly inside the text of a collapsed block's placeholder
InsidePlaceholder(s) ==
    \E i \in 1..Len(s.collapsedBlocks) :
        LET b == s.collapsedBlocks[i]
        IN  /\ ~b.isExpanded
            /\ \E k \in Occurrences(LineAt(s.lines, s.cursorRow), b.placeholder) :
                   s.cursorCol > k /\ s.cursorCol < k + Len(b.placeholder)

\* the position of the cursor in the buffer text, in codepoints
CursorOffset(s) ==
    Len(JoinLF(ArraySlice(s.lines, 0, s.cursorRow)))
        + (IF s.cursorRow > 0 THEN 1 ELSE 0) + s.cursorCol

\* snapshot t is snapshot s with text spliced in at the cursor and the cursor
\* at the end of the inserted content
SplicedAtCursor(s, t, text) ==
    LET old == JoinLF(s.lines)
        at == CursorOffset(s)
        parts == SplitLF(text)
    IN  /\ JoinLF(t.lines) = SubSeq(old, 1, at) \o text \o SubSeq(old, at + 1, Len(old))
        /\ Len(t.lines) = Len(s.lines) + LineFeeds(text)
        /\ t.cursorRow = s.cursorRow + LineFeeds(text)
        /\ t.cursorCol = Len(parts[Len(parts)])
                           + (IF LineFeeds(text) = 0 THEN s.cursorCol ELSE 0)

\* C29: an insert of normalized text with 1 to 5 lines, with the cursor not
\* inside a placeholder, splices the text at the cursor: the buffer text is the
\* text before the cursor, the inserted text and the text after the cursor, the
\* line count grows by the number of line feeds, and the cursor ends at the end
\* of the inserted content; "你好" into an empty buffer leaves cursor column 2.
C29_InsertSplicesAtCursor ==
    ~crashed =>
        /\ \A text \in InsertTexts :
               ~InsidePlaceholder(state) =>
                   SplicedAtCursor(state, applyInsert(state, text), text)
        /\ applyInsert([state EXCEPT !.lines = << <<>> >>, !.cursorRow = 0,
                                     !.cursorCol = 0, !.collapsedBlocks = <<>>],
                       <<"CJK", "CJK">>).cursorCol = 2

-----------------------------------------------------------------------------
\* the cursor is neither inside nor at an end of a collapsed block's placeholder
AwayFromPlaceholders(s) ==
    \A i \in 1..Len(s.collapsedBlocks) :
        LET b == s.collapsedBlocks[i]
        IN  ~b.isExpanded =>
                \A k \in Occurrences(LineAt(s.lines, s.cursorRow), b.placeholder) :
                    s.cursorCol < k \/ s.cursorCol > k + Len(b.placeholder)

\* str without its i-th codepoint (1-based)
WithoutCodepoint(str, i) == SubSeq(str, 1, i - 1) \o SubSeq(str, i + 1, Len(str))

\* lines with the lines of rows row and row + 1 (0-based) joined into one
JoinedAt(lines, row) ==
    SubSeq(lines, 1, row) \o <<lines[row + 1] \o lines[row + 2]>>
        \o SubSeq(lines, row + 3, Len(lines))

\* snapshot t is snapshot s after an ordinary backspace
BackspacedFrom(s, t) ==
    IF s.cursorCol > 0
    THEN /\ t.lines = [s.lines EXCEPT ![s.cursorRow + 1] = WithoutCodepoint(@, s.cursorCol)]
         /\ Len(t.lines[s.cursorRow + 1]) = Len(s.lines[s.cursorRow + 1]) - 1
         /\ t.cursorRow = s.cursorRow /\ t.cursorCol = s.cursorCol - 1
    ELSE IF s.cursorRow > 0
    THEN /\ t.lines = JoinedAt(s.lines, s.cursorRow - 1)
         /\ t.cursorRow = s.cursorRow - 1
         /\ t.cursorCol = Len(s.lines[s.cursorRow])
    ELSE t.lines = s.lines /\ t.cursorRow = s.cursorRow /\ t.cursorCol = s.cursorCol

\* snapshot t is snapshot s after an ordinary delete
DeletedFrom(s, t) ==
    /\ t.cursorRow = s.cursorRow /\ t.cursorCol = s.cursorCol
    /\ IF s.cursorCol < Len(s.lines[s.cursorRow + 1])
       THEN t.lines = [s.lines EXCEPT ![s.cursorRow + 1] = WithoutCodepoint(@, s.cursorCol + 1)]
       ELSE IF s.cursorRow < Len(s.lines) - 1
       THEN t.lines = JoinedAt(s.lines, s.cursorRow)
       ELSE t.lines = s.lines

\* C30: away from placeholder boundaries, backspace removes exactly the
\* codepoint before the cursor and delete exactly the codepoint at the cursor;
\* at column 0 backspace joins the line with the previous one and puts the
\* cursor at the join point, at the end of a line delete joins the next line
\* without moving the cursor; backspace at (0, 0) and delete at the end of the
\* last line leave lines and cursor unchanged.
C30_OrdinaryDeletion ==
    (~crashed /\ AwayFromPlaceholders(state)) =>
        /\ state.cursorRow \in 0..(Len(state.lines) - 1)
        /\ BackspacedFrom(state, applyBackspace(state))
        /\ DeletedFrom(state, applyDelete(state))

-----------------------------------------------------------------------------
\* the end of the greedy window from start: the largest end whose codepoints
\* from start fit maxWidth
GreedyEnd(cps, start, maxWidth) ==
    LET fits == {e \in start..Len(cps) :
                     PrefixWidth(cps, e) - PrefixWidth(cps, start) <= maxWidth}
    IN  CHOOSE e \in fits : \A f \in fits : f <= e

\* the spaces of the window [start, end), as 0-based offsets
SpacesIn(cps, start, end) == {i \in start..(end - 1) : cps[i + 1] = " "}

\* segment k of a wrap of cps is what the greedy window at its start asks for:
\* the rest of the line, one codepoint too wide for the line, the window up to
\* its last space (the next segment starts after that space), or the window
SegmentFollowsWindow(cps, wrap, k, maxWidth) ==
    LET start == wrap.segmentStarts[k]
        isLast == k = Len(wrap.segments)
        next == IF isLast THEN Len(cps) ELSE wrap.segmentStarts[k + 1]
        end == GreedyEnd(cps, start, maxWidth)
        spaces == SpacesIn(cps, start, end)
        lastSpace == CHOOSE i \in spaces : \A j \in spaces : j <= i
    IN  /\ start < next
        /\ IF end = Len(cps)
           THEN isLast /\ wrap.segments[k] = SubSeq(cps, start + 1, Len(cps))
           ELSE IF end = start
           THEN next = start + 1 /\ wrap.segments[k] = SubSeq(cps, start + 1, next)
           ELSE IF spaces # {}
           THEN /\ ~isLast
                /\ next = lastSpace + 1
                /\ wrap.segments[k] = SubSeq(cps, start + 1, lastSpace)
           ELSE ~isLast /\ next = end /\ wrap.segments[k] = SubSeq(cps, start + 1, end)

-----------------------------------------------------------------------------
\* a run of the loop body either leaves the loop or moves start forward
LoopStepAdvances ==
    (call.op = "wrapLoop" /\ call'.op = "wrapLoop") =>
        \/ call'.done
        \/ call'.start >= call.start + 1

\* C32: the wrap loop terminates for every line and every width (widths <= 0
\* and codepoints wider than the width included): every iteration either emits
\* the rest of the line and stops or advances the start offset by at least one
\* codepoint, so there are never more segments than codepoints; an empty line
\* yields exactly one empty segment with start 0.
C32_WrapLoopTerminates ==
    /\ [](call.op = "wrapLoop" =>
            /\ call.start <= Len(call.logicalLine)
            /\ Len(call.segments) <= Max(1, Len(call.logicalLine))
            /\ call.done =>
                   [segments |-> call.segments, segmentStarts |-> call.segmentStarts]
                       = wrapLogicalLine(call.logicalLine, call.viewportWidth)
            /\ (call.logicalLine = <<>>) =>
                   /\ call.done
                   /\ call.segments = << <<>> >>
                   /\ call.segmentStarts = <<0>>)
    /\ [][LoopStepAdvances]_vars

\* two wide codepoints at width 0: each iteration forces one codepoint out
C32_Witness ==
    /\ call.op = "wrapLoop"
    /\ call.viewportWidth = 0
    /\ call.logicalLine = <<"CJK", "CJK">>
    /\ call.done
    /\ call.segments = <<<<"CJK">>, <<"CJK">>>>

-----------------------------------------------------------------------------
-----------------------------------------------------------------------------
\* a step keeps the buffered paste lines, appends a fragment's lines to them,
\* or hands all of them to the insert of the timeout callback
BufferedLinesKept ==
    \/ IsPrefix(pasteBufferRef, pasteBufferRef')
    \/ /\ pasteBufferRef' = <<>>
       /\ state' = PasteInsert(state, pasteBufferRef, pasteCursorRef)

\* C34: no buffered paste fragment is silently lost: while the surface is not
\* torn down, the lines of every multi-line fragment passed to handleKey stay
\* in the paste buffer until a debounce timer fires and inserts them, also when
\* the cursor moved between that fragment and the next multi-line fragment.
C34_NoFragmentLost ==
    [][(mounted' /\ ~crashed') => BufferedLinesKept]_vars

-----------------------------------------------------------------------------
\* a line holds a line feed or a carriage return
HasLineBreak(line) == \E i \in 1..Len(line) : line[i] \in {"LF", "CR"}

\* C35: in every reachable state the buffer has at least one logical line and
\* no logical line contains a line feed or a carriage return, so splitting the
\* exported text on line feeds gives back exactly the lines array.
C35_LinesHoldNoLineBreak ==
    /\ Len(state.lines) >= 1
    /\ \A i \in 1..Len(state.lines) : ~HasLineBreak(state.lines[i])
    /\ ~crashed => SplitLF(JoinLF(state.lines)) = state.lines

\* setText("a\r\nb\u0007\r\u{1F600}") has run: the CR LF pair and the lone
\* carriage return each ended a line
C35_Witness ==
    /\ ~crashed
    /\ nSetText = 1
    /\ state.lines = <<<<"a">>, <<"b">>, <<"EMOJI">>>>
    /\ JoinLF(state.lines) = <<"a", "LF", "b", "LF", "EMOJI">>

-----------------------------------------------------------------------------
\* the cursor invariant on a snapshot
ValidCursor(s) ==
    /\ s.cursorRow \in 0..(Len(s.lines) - 1)
    /\ s.cursorCol \in 0..Len(LineAt(s.lines, s.cursorRow))

\* no collapsed block is registered at the cursor row or has its placeholder
\* on the cursor line
NoCollapsedBlockOnCursorLine(s) ==
    \A i \in 1..Len(s.collapsedBlocks) :
        LET b == s.collapsedBlocks[i]
        IN  ~b.isExpanded =>
                /\ b.startLine # s.cursorRow
                /\ ~Includes(LineAt(s.lines, s.cursorRow), b.placeholder)

\* the single codepoints a key can insert: narrow, wide, zero-width, astral,
\* and the line feed of shift+return
InsertedCodepoints == {"x", " ", "TAB", "CJK", "COMB", "EMOJI", "LF"}

-----------------------------------------------------------------------------
\* C37: history navigation does not damage the draft: Up on the first row
\* recalls the latest history entry, Down on the last row returns, and the
\* draft is as it was before Up: the same buffer text and the same
\* collapsed-block registry.
C37_HistoryKeepsDraft ==
    (~crashed /\ state.cursorRow = 0) =>
        LET recalled == HistoryUp(InputAreaOver(state, SubmittedBefore))
            returned == HistoryDown(recalled)
        IN  /\ recalled.buffer.cursorRow = Len(recalled.buffer.lines) - 1
            /\ JoinLF(returned.buffer.lines) = JoinLF(state.lines)
            /\ returned.buffer.collapsedBlocks = state.collapsedBlocks

-----------------------------------------------------------------------------
\* C38: the codepoint cache is transparent: after any sequence of calls to the
\* text utilities every cached entry for s is the decomposition of s,
\* toCodePoints(s) returns exactly the codepoint sequence of s, and
\* backspaceByGraphemeApprox gives on a string what it gave the first time.
C38_CodepointCacheTransparent ==
    /\ \A str \in DOMAIN codePointsCache : codePointsCache[str] = str
    /\ call.op = "toCodePoints" => call.result = call.str
    /\ \A str \in TextStrings :
           backspaceByGraphemeApproxWith(codePointsCache, str).result
               = backspaceByGraphemeApproxWith(EmptyMap, str).result

=============================================================================
